---- MODULE Spec2Model ----
(***************************************************************************)
(* A model of the copilot-os orchestration core: the agent registry        *)
(* (internal/agents), the prompt evaluator (internal/prompt), the CLI      *)
(* invoker (internal/cli) and the orchestrator's chain executor            *)
(* (internal/orchestrator).                                                *)
(*                                                                         *)
(* Text is TLA+ strings, read with Len, SubSeq and \o, so that trimming,   *)
(* substring tests, the evaluator's regular expressions and the prompts    *)
(* and reports the orchestrator formats are computed on the characters.    *)
(* Durations and timestamps are left out: no decision of the code reads    *)
(* them.                                                                   *)
(***************************************************************************)
EXTENDS Integers, Sequences, FiniteSets, TLC

VARIABLES
    registry,      \* agents.Registry: [agents: name -> Agent, order: Seq(name)]
    regCall,       \* the last call made on the registry: "none", "Add", "MatchKeywords"
    addIn,         \* the agent handed to the last Registry.Add (NilAgent when none)
    addErr,        \* error returned by the last Registry.Add ("nil" when none)
    accepted,      \* history: the agents whose Add returned nil, in call order
    matchIn,       \* keywords of the last direct Registry.MatchKeywords call
    matchOut,      \* agents returned by that call
    getOut,        \* agent returned by the last Registry.Get (NilAgent when none)
    allOut,        \* the list the last Registry.All returned, as its caller holds it
    pc,            \* position of the request: "idle", "loop", "invoke", "returned"
    mode,          \* "auto" (RunWithAuto), "explicit" (RunWithExplicitChain), "none"
    ctxDone,       \* whether the request's context is cancelled
    state,         \* the *ContextState the Run* call builds and returns
    retErr,        \* the error the Run* call returns: "nil", "notfound", "canceled"
    keywords,      \* RunWithAuto: keywords extracted from the refined prompt
    fellBack,      \* RunWithAuto: whether selectTopAgents was used
    chainPrompt,   \* executeChain: parameter prompt
    chainAgents,   \* executeChain: parameter agents
    idx,           \* executeChain: 1-based position of the range loop
    results,       \* executeChain: local results
    contextState,  \* executeChain: local contextState.AgentResults
    chainOut,      \* executeChain: returned final output ("unset" before it returns)
    invocations    \* every call made to InvokeAgent: [agent, prompt, ctxDone, err],
                   \* err the error it returned ("pending" until it returns)

\* Requests served concurrently, each by a goroutine of its own.
VARIABLES
    reqs,          \* per request: the locals of its Run* call (pc, state, ...)
    frames         \* per call frame of executeChain: its locals results, contextState

regVars == <<registry, regCall, addIn, addErr, accepted, matchIn, matchOut, getOut,
            allOut>>
reqVars == <<pc, mode, ctxDone, state, retErr, keywords, fellBack, chainPrompt,
             chainAgents, idx, results, contextState, chainOut, invocations>>
\* Calls made on the Evaluator and on ExtractKeywords.
VARIABLES
    evalLog        \* the calls so far: [op, prompt, out], op "Evaluate" or
                   \* "ExtractKeywords", out what the call returned

\* Calls made directly on an Invoker.
VARIABLES
    invokeLog      \* the calls so far: [agent, prompt, runs, result, err], runs the
                   \* runs of the copilot command the call made, in order

\* A Discovery and the repository it scans.
VARIABLES
    agentsDir,     \* the directory .github/agents of the repository
    discoverLog    \* the calls of Discover so far: [err, before, after], the
                   \* error returned and the registry before and after the call

conVars == <<reqs, frames>>
evalVars == <<evalLog>>
invVars == <<invokeLog>>
disVars == <<agentsDir, discoverLog>>

\* The environment of the process and the configurations loaded from it.
VARIABLES
    env,           \* the environment variables, "" for one that is not set
    cfgLog         \* the Config values LoadFromEnv has returned so far

cfgVars == <<env, cfgLog>>
vars == <<registry, regCall, addIn, addErr, accepted, matchIn, matchOut, getOut, allOut,
          pc, mode,
          ctxDone, state, retErr, keywords, fellBack, chainPrompt, chainAgents, idx,
          results, contextState, chainOut, invocations, reqs, frames, evalLog,
          invokeLog, agentsDir, discoverLog, env, cfgLog>>

(***************************************************************************)
(* Bounds of the model.                                                    *)
(***************************************************************************)
MaxAgents == 4      \* most agents registered
MaxKeywords == 3    \* longest keyword list handed to MatchKeywords directly
MaxChain == 2       \* longest explicit chain
MaxCalls == 2       \* most calls recorded on one Evaluator

(***************************************************************************)
(* Sequence helpers.                                                       *)
(***************************************************************************)
Range(s) == {s[i] : i \in 1..Len(s)}

Min(a, b) == IF a < b THEN a ELSE b

SeqsUpTo(S, n) == UNION {[1..k -> S] : k \in 0..n}

\* Sequences over S of length at most n without a repeated element.
DistinctSeqsUpTo(S, n) ==
    {s \in SeqsUpTo(S, n) : \A i, j \in 1..Len(s) : i # j => s[i] # s[j]}

Prefix(s, n) == SubSeq(s, 1, Min(n, Len(s)))

(***************************************************************************)
(* internal/agents: Agent, Registry.                                       *)
(***************************************************************************)
Agent(name, description, kws) ==
    [Name |-> name, Description |-> description, Keywords |-> kws]

\* The nil *Agent that Registry.Get returns for a name that is not registered.
NilAgent == [Name |-> "<nil>", Description |-> "<nil>", Keywords |-> <<>>]

\* The agent definitions shipped in .github/agents/.
CodeReviewer ==
    Agent("code-reviewer",
          "Specialized Go code reviewer focused on quality, correctness, and performance",
          <<"code-review", "go", "quality", "testing", "correctness", "performance",
            "refactoring">>)
TestGenerator ==
    Agent("test-generator",
          "Go test generation specialist creating unit and integration tests",
          <<"testing", "test-generation", "unit-tests", "integration-tests", "go",
            "coverage", "mocking">>)
ArchitectureAdvisor ==
    Agent("architecture-advisor",
          "System architecture advisor for MCP servers and Go applications",
          <<"architecture", "design", "system-design", "patterns", "modularity",
            "scalability", "mcp">>)
DocumentationWriter ==
    Agent("documentation-writer",
          "Documentation specialist creating clear, comprehensive docs and comments",
          <<"documentation", "writing", "readme", "api-docs", "comments", "guides",
            "examples">>)

\* Descriptors Add rejects: a second descriptor under a registered name
\* (TestRegistry_DuplicateAdd) and one without a name.
DuplicateReviewer == Agent("code-reviewer", "Second", <<"design">>)
Nameless == Agent("", "No name", <<"testing">>)

ValidCatalog == {CodeReviewer, TestGenerator, ArchitectureAdvisor, DocumentationWriter}
Catalog == ValidCatalog \cup {DuplicateReviewer, Nameless}

NewRegistry == [agents |-> [n \in {} |-> NilAgent], order |-> <<>>]

Has(r, name) == name \in DOMAIN r.agents

\* Registry.Add: the error it returns.
AddError(r, agent) ==
    IF agent.Name = "" THEN "empty"
    ELSE IF Has(r, agent.Name) THEN "duplicate"
    ELSE "nil"

\* An Add that checks the name and then stores the agent whether or not the
\* name is taken: a duplicate replaces the first registration.
AddOverwriting(r, agent) ==
    IF agent.Name = "" THEN r
    ELSE [agents |-> [n \in DOMAIN r.agents \cup {agent.Name} |->
                         IF n = agent.Name THEN agent ELSE r.agents[n]],
          order |-> IF Has(r, agent.Name) THEN r.order ELSE Append(r.order, agent.Name)]

\* Registry.Add: the registry it leaves.
Add(r, agent) ==
    IF AddError(r, agent) # "nil" THEN r
    ELSE [agents |-> [n \in DOMAIN r.agents \cup {agent.Name} |->
                         IF n = agent.Name THEN agent ELSE r.agents[n]],
          order |-> Append(r.order, agent.Name)]

Get(r, name) == IF Has(r, name) THEN r.agents[name] ELSE NilAgent

\* An All that hands the agents out last registered first.
AllReversed(r) == [i \in 1..Len(r.order) |-> r.agents[r.order[Len(r.order) + 1 - i]]]

All(r) == [i \in 1..Len(r.order) |-> r.agents[r.order[i]]]

\* A lookup set that keeps the first keyword of the list only.
KeywordSetFirstOnly(kws) == IF kws = <<>> THEN {} ELSE {kws[1]}

\* keywordSet := make(map[string]bool); for _, kw := range keywords { ... }
KeywordSet(kws) == Range(kws)

\* calculateMatchScore.  The score is a float64 that only ever takes the values
\* 0.0, 2.0, 4.0, ..., which float64 represents exactly; it is an integer here.
RECURSIVE SumMatches(_, _, _)
SumMatches(agentKeywords, searchKeywords, i) ==
    IF i > Len(agentKeywords) THEN 0
    ELSE (IF agentKeywords[i] \in searchKeywords THEN 2 ELSE 0)
         + SumMatches(agentKeywords, searchKeywords, i + 1)

calculateMatchScore(agentKeywords, searchKeywords) ==
    IF Len(agentKeywords) = 0 \/ searchKeywords = {} THEN 0
    ELSE SumMatches(agentKeywords, searchKeywords, 1)

\* MatchKeywords, "Score each agent": the agents of All() with score > 0, in order.
RECURSIVE ScoreAgents(_, _, _)
ScoreAgents(all, keywordSet, i) ==
    IF i > Len(all) THEN <<>>
    ELSE LET score == calculateMatchScore(all[i].Keywords, keywordSet)
         IN (IF score > 0 THEN <<[agent |-> all[i], score |-> score]>> ELSE <<>>)
            \o ScoreAgents(all, keywordSet, i + 1)

Swap(s, i, j) == [s EXCEPT ![i] = s[j], ![j] = s[i]]

\* MatchKeywords, "Sort by score (descending)": the two nested loops.
RECURSIVE SortInner(_, _, _)
SortInner(scores, i, j) ==
    IF j > Len(scores) THEN scores
    ELSE SortInner(IF scores[j].score > scores[i].score THEN Swap(scores, i, j)
                   ELSE scores, i, j + 1)

RECURSIVE SortOuter(_, _)
SortOuter(scores, i) ==
    IF i > Len(scores) THEN scores
    ELSE SortOuter(SortInner(scores, i, i + 1), i + 1)

\* A ranking that leaves the scored agents in registration order.
UnsortedScores(scores) == scores

SortScores(scores) == SortOuter(scores, 1)

\* The scored list MatchKeywords extracts its result from.
RankedScores(r, kws) == SortScores(ScoreAgents(All(r), KeywordSet(kws), 1))

MatchKeywords(r, kws) ==
    LET scores == RankedScores(r, kws)
    IN [i \in 1..Len(scores) |-> scores[i].agent]

(***************************************************************************)
(* Text helpers: package strings and the regexp patterns the code uses.    *)
(***************************************************************************)
Char(s, i) == SubSeq(s, i, i)

\* strings.Contains
Contains(s, sub) ==
    \E i \in 1..(Len(s) - Len(sub) + 1) : SubSeq(s, i, i + Len(sub) - 1) = sub

\* Whether s matches the regular expression t1|t2|... for the terms of the set.
ContainsAny(s, terms) == \E t \in terms : Contains(s, t)

\* White space: unicode.IsSpace on the ASCII characters, and \s of regexp.
Space == {" ", "\t", "\n", "\r", "\f"}

UpperCase == "ABCDEFGHIJKLMNOPQRSTUVWXYZ"
LowerCase == "abcdefghijklmnopqrstuvwxyz"
Digits == "0123456789"

LowerChar(c) ==
    IF \E i \in 1..Len(UpperCase) : Char(UpperCase, i) = c
    THEN Char(LowerCase, CHOOSE i \in 1..Len(UpperCase) : Char(UpperCase, i) = c)
    ELSE c

\* strings.ToLower
RECURSIVE ToLower(_)
ToLower(s) ==
    IF s = "" THEN "" ELSE LowerChar(Char(s, 1)) \o ToLower(SubSeq(s, 2, Len(s)))

\* A TrimSpace that trims nothing.
TrimNothing(s) == s

\* strings.TrimSpace
TrimSpace(s) ==
    LET solid == {i \in 1..Len(s) : Char(s, i) \notin Space}
    IN IF solid = {} THEN ""
       ELSE SubSeq(s, CHOOSE i \in solid : \A j \in solid : i <= j,
                      CHOOSE i \in solid : \A j \in solid : i >= j)

\* len(strings.Fields(s)): the number of maximal runs of non-space characters.
FieldCount(s) ==
    Cardinality({i \in 1..Len(s) :
                    /\ Char(s, i) \notin Space
                    /\ (i = 1 \/ Char(s, i - 1) \in Space)})

\* \w of regexp: [0-9A-Za-z_].
WordChars == UpperCase \o LowerCase \o Digits \o "_"

IsWordChar(c) == \E i \in 1..Len(WordChars) : Char(WordChars, i) = c

\* \b between positions i and i+1 of s (0 <= i <= Len(s)).
Boundary(s, i) ==
    (i >= 1 /\ IsWordChar(Char(s, i))) # (i < Len(s) /\ IsWordChar(Char(s, i + 1)))

\* Whether term t occupies positions i .. i+Len(t)-1 of s.
At(s, t, i) == i >= 1 /\ i + Len(t) - 1 <= Len(s) /\ SubSeq(s, i, i + Len(t) - 1) = t

(***************************************************************************)
(* internal/prompt: Evaluator.                                             *)
(***************************************************************************)
minimumLength == 10
minimumWords == 2
\* Confidence is a float64 in the code and counted in tenths here: the values
\* the code can compute are 0.7 - 0.2a + 0.1b (a, b in 0..3), and on each of
\* them float64 rounding leaves the comparisons with 0, 1 and the threshold
\* 0.7 as they are in exact arithmetic.
BaseConfidence == 7
Penalty == 2
Bonus == 1
MaxConfidence == 10
confidenceThreshold == 7

IssueShort == "Prompt is too short and lacks context"
IssueDetail == "Prompt lacks sufficient detail"
IssueVague == "Prompt uses vague terms (e.g., 'it', 'this', 'module')"

VagueNouns == {"thing", "stuff", "something"}
VagueVerbs == {"check", "look", "review", "fix"}
VaguePronouns == {"it", "this", "that"}

\* \b(thing|stuff|something)\b
MatchesVagueNoun(s) ==
    \E t \in VagueNouns : \E i \in 1..Len(s) :
        At(s, t, i) /\ Boundary(s, i - 1) /\ Boundary(s, i + Len(t) - 1)

\* \b(check|look|review|fix)\s+(it|this|that)\b
MatchesVagueVerb(s) ==
    \E v \in VagueVerbs : \E i \in 1..Len(s) :
        /\ At(s, v, i) /\ Boundary(s, i - 1)
        /\ \E k \in (i + Len(v) + 1)..Len(s) :
              /\ \A j \in (i + Len(v))..(k - 1) : Char(s, j) \in Space
              /\ \E p \in VaguePronouns : At(s, p, k) /\ Boundary(s, k + Len(p) - 1)

\* The loop over vaguenessPatterns: at least one pattern matches.
IsVague(prompt) ==
    MatchesVagueNoun(ToLower(prompt)) \/ MatchesVagueVerb(ToLower(prompt))

\* The same loop without its break: one issue for every pattern that matches.
VagueIssuesNoBreak(prompt) ==
    (IF MatchesVagueNoun(ToLower(prompt)) THEN <<IssueVague>> ELSE <<>>)
    \o (IF MatchesVagueVerb(ToLower(prompt)) THEN <<IssueVague>> ELSE <<>>)

\* The loop over vaguenessPatterns appends one issue at the first pattern that
\* matches and breaks.
VagueIssues(prompt) == IF IsVague(prompt) THEN <<IssueVague>> ELSE <<>>

actions ==
    {"review", "analyze", "check", "test", "generate", "design", "create", "refactor",
     "improve", "optimize", "fix", "debug", "explain", "implement", "architect",
     "validate", "verify"}

\* An evaluator that recognises no action verb.
containsNoActionVerb(prompt) == FALSE

containsActionVerb(prompt) == ContainsAny(ToLower(prompt), actions)

\* A refinement that drops the prompt.
suggestRefinementEmpty(prompt, issues) == ""

suggestRefinement(prompt, issues) ==
    LET vague == IF /\ Len(issues) > 0 /\ Contains(issues[1], "vague")
                    /\ ~Contains(prompt, " for ") /\ ~Contains(prompt, " including ")
                 THEN prompt \o " for correctness and best practices"
                 ELSE prompt
    IN IF /\ Len(issues) > 0 /\ Contains(issues[1], "too short")
          /\ ~Contains(vague, " including ")
       THEN vague \o " including error handling and edge cases"
       ELSE vague

\* domainKeywords of ExtractKeywords.  It is a Go map: the order in which the
\* range loop visits its four entries is not fixed, so ExtractKeywords takes
\* the order as a permutation of 1..4.
domainKeywords ==
    <<[pattern |-> {"code", "review", "quality", "bug", "issue", "fix", "check", "error",
                    "performance", "refactor", "correct"},
       kws |-> <<"code-review", "quality">>],
      [pattern |-> {"test", "coverage", "unit-test", "mock", "integration-test",
                    "edge-case"},
       kws |-> <<"test-generator", "testing">>],
      [pattern |-> {"architecture", "design", "pattern", "structure", "organize",
                    "scale", "module", "boundary"},
       kws |-> <<"architecture-advisor", "design">>],
      [pattern |-> {"doc", "readme", "guide", "comment", "explain", "write", "api",
                    "tutorial"},
       kws |-> <<"documentation-writer", "docs">>]>>

MapOrders == {o \in [1..Len(domainKeywords) -> 1..Len(domainKeywords)] :
                 \A i, j \in DOMAIN o : i # j => o[i] # o[j]}

\* "Remove duplicates": the first occurrence of each keyword, in order.
RECURSIVE Unique(_)
Unique(kws) ==
    IF kws = <<>> THEN <<>>
    ELSE LET init == Unique(SubSeq(kws, 1, Len(kws) - 1))
             last == kws[Len(kws)]
         IN IF last \in Range(init) THEN init ELSE Append(init, last)

RECURSIVE CollectKeywords(_, _, _)
CollectKeywords(promptLower, order, i) ==
    IF i > Len(order) THEN <<>>
    ELSE (IF ContainsAny(promptLower, domainKeywords[order[i]].pattern)
          THEN domainKeywords[order[i]].kws ELSE <<>>)
         \o CollectKeywords(promptLower, order, i + 1)

\* ExtractKeywords without the lower-casing of the prompt.
ExtractKeywordsCaseSensitive(prompt, order) == Unique(CollectKeywords(prompt, order, 1))

ExtractKeywords(prompt, order) == Unique(CollectKeywords(ToLower(prompt), order, 1))

Clamp(c) == IF c < 0 THEN 0 ELSE IF c > MaxConfidence THEN MaxConfidence ELSE c

\* A clarity test that wants more than the threshold.
IsClearAbove(confidence) == confidence > confidenceThreshold

\* result.IsClear = result.Confidence >= e.confidenceThreshold
IsClearAt(confidence) == confidence >= confidenceThreshold

\* Evaluator.Evaluate; order is the map order of its call of ExtractKeywords.
Evaluate(rawPrompt, order) ==
    LET prompt == TrimSpace(rawPrompt)
        issues ==
            (IF Len(prompt) < minimumLength THEN <<IssueShort>> ELSE <<>>)
            \o (IF FieldCount(prompt) < minimumWords THEN <<IssueDetail>> ELSE <<>>)
            \o VagueIssues(prompt)
        hasSpecificFile == Contains(prompt, ".go") \/ Contains(prompt, "/")
        hasFunction == Contains(prompt, "func") \/ Contains(prompt, "()")
        hasActionVerb == containsActionVerb(prompt)
        confidence ==
            Clamp(BaseConfidence - Penalty * Len(issues)
                  + (IF hasSpecificFile THEN Bonus ELSE 0)
                  + (IF hasFunction THEN Bonus ELSE 0)
                  + (IF hasActionVerb THEN Bonus ELSE 0))
        isClear == IsClearAt(confidence)
        refinement == suggestRefinement(prompt, issues)
    IN IF prompt = ""
       THEN [IsClear |-> FALSE,
             Feedback |-> "Prompt is empty. Please provide a task description.",
             SuggestedRefinement |-> "",
             Confidence |-> 0,
             DetectedIssues |-> <<>>,
             RefinedPrompt |-> rawPrompt,
             SuggestedAgentKeywords |-> <<>>]
       ELSE [IsClear |-> isClear,
             Feedback |-> IF isClear THEN "Prompt is clear and actionable."
                          ELSE "Prompt could be improved for clarity and specificity.",
             SuggestedRefinement |-> IF isClear THEN "" ELSE refinement,
             Confidence |-> confidence,
             DetectedIssues |-> issues,
             RefinedPrompt |-> IF isClear THEN prompt ELSE refinement,
             SuggestedAgentKeywords |-> ExtractKeywords(prompt, order)]

(***************************************************************************)
(* internal/cli: Invoker.InvokeAgent.                                      *)
(*                                                                         *)
(* What running the copilot command did is the environment's choice: a     *)
(* record [err, code, stdout, stderr], where err is "nil" (cmd.Run         *)
(* returned nil), "exit" (an *exec.ExitError with exit code `code`),       *)
(* "notfound" (the command could not be started), "deadline" (the          *)
(* invoker's timeout expired) or "canceled" (the caller's context was      *)
(* cancelled).                                                             *)
(***************************************************************************)
CmdRun(err, code, stdout, stderr) ==
    [err |-> err, code |-> code, stdout |-> stdout, stderr |-> stderr]

\* A nil json.RawMessage.
NilBytes == "<nil>"

\* Standard output that json.Unmarshal accepts.
JSONDocuments == {"[1, 2]", "null"}

\* err.Error() of what cmd.Run returned.
RunErrorText(run) ==
    CASE run.err = "exit" -> "exit status " \o Char(Digits, run.code + 1)
      [] run.err = "notfound" -> "exec: copilot: executable file not found in $PATH"
      [] run.err = "deadline" -> "signal: killed"
      [] run.err = "canceled" -> "context canceled"
      [] OTHER -> ""

\* fmt.Sprintf("%v", i.timeout) for the default timeout of 300 seconds.
TimeoutText == "5m0s"

\* InvokeAgent's result and error for one run of the command.
InvokeAgent(agentName, prompt, run) ==
    LET output ==
            IF run.stdout = "" THEN NilBytes
            ELSE IF TrimSpace(run.stdout) \in JSONDocuments THEN TrimSpace(run.stdout)
            ELSE "\"" \o TrimSpace(run.stdout) \o "\""
        error ==
            IF run.err = "nil" THEN ""
            ELSE IF run.err = "deadline"
            THEN "agent invocation timed out after " \o TimeoutText
            ELSE IF run.stderr # "" THEN run.stderr
            ELSE RunErrorText(run)
    IN [result |-> [Agent |-> agentName,
                    Success |-> run.stdout # "" /\ run.err = "nil",
                    Output |-> output,
                    Error |-> error,
                    ExitCode |-> IF run.err \in {"exit", "deadline"}
                                 THEN run.code ELSE 0],
        err |-> "nil"]

\* Runs of the command the chain executor is exercised with.
RunOK == CmdRun("nil", 0, "[1, 2]", "")
RunFailed == CmdRun("exit", 1, "", "boom")
RunFailedWithOutput == CmdRun("exit", 2, "partial\n", "")
RunCanceled == CmdRun("canceled", 0, "", "")
CmdRuns == {RunOK, RunFailed, RunFailedWithOutput, RunCanceled}

(***************************************************************************)
(* internal/orchestrator: Orchestrator.                                    *)
(***************************************************************************)
\* strconv of a small non-negative integer, as %d formats it.
RECURSIVE Itoa(_)
Itoa(n) == IF n < 10 THEN Char(Digits, n + 1)
           ELSE Itoa(n \div 10) \o Char(Digits, (n % 10) + 1)

\* string(result.Output)
OutputText(output) == IF output = NilBytes THEN "" ELSE output

PreviousHeader == "\n\n[Previous Agent Results:]"

RECURSIVE PreviousLines(_, _)
PreviousLines(agentResults, i) ==
    IF i > Len(agentResults) THEN ""
    ELSE "\n- Agent " \o Itoa(i) \o " (" \o agentResults[i].Agent \o "): "
         \o OutputText(agentResults[i].Output) \o PreviousLines(agentResults, i + 1)

\* The block buildAgentPrompt appends for a non-empty list of forwarded results.
PreviousBlock(agentResults) ==
    PreviousHeader \o PreviousLines(agentResults, 1)
    \o "\n[Consider these results in your response]"

\* A prompt builder that forwards nothing.
buildAgentPromptNoContext(basePrompt, agent, agentResults) ==
    basePrompt \o "\n\n[Agent Context: You are the " \o agent.Name \o ". "
    \o agent.Description \o "]"

buildAgentPrompt(basePrompt, agent, agentResults) ==
    basePrompt \o "\n\n[Agent Context: You are the " \o agent.Name \o ". "
    \o agent.Description \o "]"
    \o (IF Len(agentResults) > 0 THEN PreviousBlock(agentResults) ELSE "")

\* The check mark and the cross of the status lines are written v and x.
RECURSIVE ResultBlocks(_, _)
ResultBlocks(rs, i) ==
    IF i > Len(rs) THEN ""
    ELSE "## Agent " \o Itoa(i) \o ": " \o rs[i].Agent \o "\n"
         \o (IF rs[i].Success
             THEN "Status: v Success\n"
                  \o (IF rs[i].Output # NilBytes
                      THEN "Output:\n" \o OutputText(rs[i].Output) \o "\n\n" ELSE "")
             ELSE "Status: x Failed\n"
                  \o (IF rs[i].Error # ""
                      THEN "Error: " \o rs[i].Error \o "\n\n" ELSE ""))
         \o ResultBlocks(rs, i + 1)

\* A summary that counts every result as a success.
successCountAll(rs) == Len(rs)

successCount(rs) == Cardinality({i \in 1..Len(rs) : rs[i].Success})

synthesizeOutput(agentResults, rs) ==
    "=== Agent Chain Results ===\n\n" \o ResultBlocks(rs, 1)
    \o "\n=== Summary ===\n"
    \o "Total Agents Executed: " \o Itoa(Len(rs)) \o "\n"
    \o "Successful Executions: " \o Itoa(successCount(rs)) \o "\n"

\* A selection that keeps every match.
selectAgentsAll(r, kws, maxCount) == MatchKeywords(r, kws)

selectAgents(r, kws, maxCount) ==
    LET matched == MatchKeywords(r, kws)
    IN IF Len(matched) > maxCount THEN SubSeq(matched, 1, maxCount) ELSE matched

\* A fallback that takes the whole registry.
selectTopAgentsAll(r, count) == All(r)

selectTopAgents(r, count) ==
    IF Len(All(r)) > count THEN SubSeq(All(r), 1, count) ELSE All(r)

\* A name list written last agent first.
agentNamesReversed(as) == [i \in 1..Len(as) |-> as[Len(as) + 1 - i].Name]

agentNames(as) == [i \in 1..Len(as) |-> as[i].Name]

\* strings.Join(elems, ", ")
RECURSIVE Join(_, _)
Join(elems, i) ==
    IF i > Len(elems) THEN ""
    ELSE (IF i > 1 THEN ", " ELSE "") \o elems[i] \o Join(elems, i + 1)

buildRationale(kws, selectedAgents) ==
    IF Len(selectedAgents) = 0 THEN "No agents matched the prompt keywords"
    ELSE "Selected based on keywords: " \o Join(kws, 1) \o ". " \o "Agents: "
         \o Join(agentNames(selectedAgents), 1)

\* RunWithAuto: "selectAgents(keywords, 2)" and "selectTopAgents(3)".
DefaultMaxCount == 2
FallbackCount == 3

\* The zero value of prompt.EvaluationResult.
ZeroEvaluation ==
    [IsClear |-> FALSE, Feedback |-> "", SuggestedRefinement |-> "", Confidence |-> 0,
     DetectedIssues |-> <<>>, RefinedPrompt |-> "", SuggestedAgentKeywords |-> <<>>]

ContextState(original, refined, evaluation, selectedNames, rationale) ==
    [OriginalPrompt |-> original, RefinedPrompt |-> refined,
     EvaluationFeedback |-> evaluation, AgentResults |-> <<>>, FinalOutput |-> "",
     SelectedAgents |-> selectedNames, SelectionRationale |-> rationale]

\* A nil *InvocationResult, read as the zero InvocationResult.
NilResult == [Agent |-> "", Success |-> FALSE, Output |-> NilBytes, Error |-> "",
              ExitCode |-> 0]

\* Errors a collaborator with InvokeAgent's signature may return.
CollaboratorErrors == {"fork/exec copilot: resource temporarily unavailable"}

\* An executor that records what came back without looking at the error.
RecordedResultUnchecked(agent, invoked) == invoked.result

\* The result executeChain records for what InvokeAgent returned.
RecordedResult(agent, invoked) ==
    IF invoked.err # "nil"
    THEN [Agent |-> agent.Name, Success |-> FALSE, Output |-> NilBytes,
          Error |-> invoked.err, ExitCode |-> 1]
    ELSE invoked.result

\* An executor that keeps the latest outcome only, in place of the previous one.
RecordOutcomeOverwriting(rs, result) ==
    IF rs = <<>> THEN <<result>> ELSE [rs EXCEPT ![Len(rs)] = result]

\* "results = append(results, *result)".
RecordOutcome(rs, result) == Append(rs, result)

\* A loop that stays on the agent it has just invoked.
SameStep(i) == i

\* "for _, agent := range agents": on to the next agent.
NextStep(i) == i + 1

\* A forwarding rule that takes every result.
ForwardAll(agentResults, result) == Append(agentResults, result)

\* "If agent succeeded, include output in context".
Forward(agentResults, result) ==
    IF result.Success /\ result.Output # NilBytes
    THEN Append(agentResults, result) ELSE agentResults

(***************************************************************************)
(* Inputs.                                                                 *)
(***************************************************************************)
\* Keywords handed to Registry.MatchKeywords directly.
KeywordInputs == {"quality", "testing", "design", "go", "docs"}

\* Prompts handed to RunWithAuto.
AutoPrompts ==
    {"", "Hello world", "Fix the thing", "Review auth.go for bugs",
     "Review the test design"}

\* Prompts and names handed to RunWithExplicitChain.
ExplicitPrompts == {"Fix the thing"}
ExplicitNames == {"code-reviewer", "test-generator", "unknown"}

\* What Evaluate and ExtractKeywords can return for a prompt: one result for
\* each order in which the map of domain rules can be visited.
EvaluateOutcomes(prompt) == {Evaluate(prompt, o) : o \in MapOrders}

ExtractOutcomes(prompt) == {ExtractKeywords(prompt, o) : o \in MapOrders}

\* The same, tabulated for the prompts above (f @@ <<>> is f with its values
\* computed).
Evaluations == [p \in AutoPrompts \cup ExplicitPrompts |-> EvaluateOutcomes(p)] @@ <<>>

Extractions ==
    [p \in {e.RefinedPrompt : e \in UNION {Evaluations[q] : q \in AutoPrompts}} |->
        ExtractOutcomes(p)] @@ <<>>

RECURSIVE RegistryOf(_)
RegistryOf(descriptors) ==
    IF descriptors = <<>> THEN NewRegistry
    ELSE Add(RegistryOf(SubSeq(descriptors, 1, Len(descriptors) - 1)),
             descriptors[Len(descriptors)])

\* The registries an orchestrator is constructed with: the valid descriptors
\* of the catalog, registered in any order.
Registries == {RegistryOf(ds) : ds \in DistinctSeqsUpTo(ValidCatalog, MaxAgents)}

(***************************************************************************)
(* State.                                                                  *)
(***************************************************************************)
NoRequest ==
    /\ pc = "idle"
    /\ mode = "none"
    /\ ctxDone = FALSE
    /\ state = ContextState("", "", ZeroEvaluation, <<>>, "")
    /\ retErr = "nil"
    /\ keywords = <<>>
    /\ fellBack = FALSE
    /\ chainPrompt = ""
    /\ chainAgents = <<>>
    /\ idx = 0
    /\ results = <<>>
    /\ contextState = <<>>
    /\ chainOut = "unset"
    /\ invocations = <<>>

\* The goroutines that serve requests at the same time.
Requests == {1, 2}

\* An executor that keeps results and contextState in the Orchestrator, one
\* copy for all calls.
FrameShared(r) == 1

\* The call frame of the executeChain that request r runs: one for each call.
Frame(r) == r

\* executeChain on entry: results := []; contextState := initialContext.
EmptyFrame == [results |-> <<>>, contextState |-> <<>>]

IdleRequest ==
    [pc |-> "idle", mode |-> "none", ctxDone |-> FALSE,
     state |-> ContextState("", "", ZeroEvaluation, <<>>, ""), retErr |-> "nil",
     keywords |-> <<>>, chainPrompt |-> "", chainAgents |-> <<>>, idx |-> 0,
     agentPrompt |-> "", runs |-> <<>>]

NoConcurrentRequests ==
    /\ reqs = [r \in Requests |-> IdleRequest]
    /\ frames = [r \in Requests |-> EmptyFrame]

NoEvaluatorCalls == evalLog = <<>>

NoInvokerCalls == invokeLog = <<>>

\* A directory of the repository: whether it exists, whether os.ReadDir can
\* read it, and its entries in the order os.ReadDir returns them (by name).
Directory(exists, readable, entries) ==
    [exists |-> exists, readable |-> readable, entries |-> entries]

MissingDir == Directory(FALSE, FALSE, <<>>)

NoDiscovery == agentsDir = MissingDir /\ discoverLog = <<>>

\* No environment variable set, no configuration loaded.
EmptyEnv ==
    [REPO_ROOT |-> "", LOG_LEVEL |-> "", CACHE_ENABLED |-> "", COPILOT_CLI_TIMEOUT |-> ""]

NoConfig == env = EmptyEnv /\ cfgLog = <<>>

NoRegistryCall ==
    /\ regCall = "none"
    /\ addIn = NilAgent
    /\ addErr = "nil"
    /\ matchIn = <<>>
    /\ matchOut = <<>>
    /\ getOut = NilAgent
    /\ allOut = <<>>

\* An orchestrator constructed with a populated registry, no request running.
Init ==
    /\ registry \in Registries
    /\ accepted = All(registry)
    /\ NoRegistryCall
    /\ NoRequest
    /\ NoConcurrentRequests
    /\ NoEvaluatorCalls
    /\ NoInvokerCalls
    /\ NoDiscovery
    /\ NoConfig

\* A new, empty registry.
InitRegistry ==
    /\ registry = NewRegistry
    /\ accepted = <<>>
    /\ NoRegistryCall
    /\ NoRequest
    /\ NoConcurrentRequests
    /\ NoEvaluatorCalls
    /\ NoInvokerCalls
    /\ NoDiscovery
    /\ NoConfig

(***************************************************************************)
(* Registry operations.                                                    *)
(***************************************************************************)
\* Calls on the registry are made one at a time: a call is made when the
\* previous one has returned, and what it returned stays in regCall, addErr,
\* matchIn and matchOut until the caller drops it.
AddCall(agent) ==
    /\ pc = "idle"
    /\ regCall = "none"
    /\ Len(registry.order) < MaxAgents \/ AddError(registry, agent) # "nil"
    /\ registry' = Add(registry, agent)
    /\ regCall' = "Add"
    /\ addIn' = agent
    /\ addErr' = AddError(registry, agent)
    /\ accepted' = IF AddError(registry, agent) = "nil" THEN Append(accepted, agent)
                   ELSE accepted
    /\ UNCHANGED <<matchIn, matchOut, getOut, allOut>>
    /\ UNCHANGED <<reqVars, conVars, evalVars, invVars, disVars, cfgVars>>

MatchKeywordsCall(kws) ==
    /\ pc = "idle"
    /\ regCall = "none"
    /\ regCall' = "MatchKeywords"
    /\ matchIn' = kws
    /\ matchOut' = MatchKeywords(registry, kws)
    /\ UNCHANGED <<registry, addIn, addErr, accepted, getOut, allOut>>
    /\ UNCHANGED <<reqVars, conVars, evalVars, invVars, disVars, cfgVars>>

\* Names a caller may ask Get for: those of the catalog, and two that no
\* agent carries.
LookupNames == {a.Name : a \in Catalog} \cup {"unknown", "Code-Reviewer"}

GetCall(name) ==
    /\ pc = "idle"
    /\ regCall = "none"
    /\ regCall' = "Get"
    /\ getOut' = Get(registry, name)
    /\ UNCHANGED <<registry, addIn, addErr, accepted, matchIn, matchOut, allOut>>
    /\ UNCHANGED <<reqVars, conVars, evalVars, invVars, disVars, cfgVars>>

\* A slice that is the registry's own storage.
ListStorageInternal(r) == "registry"

\* All: agents := make([]*Agent, len(r.order)), a slice of its own.
ListStorage(r) == "fresh"

\* Registry.All, also as Orchestrator.ListAgents calls it.
AllCall ==
    /\ pc = "idle"
    /\ regCall = "none"
    /\ regCall' = "All"
    /\ allOut' = All(registry)
    /\ UNCHANGED <<registry, addIn, addErr, accepted, matchIn, matchOut, getOut>>
    /\ UNCHANGED <<reqVars, conVars, evalVars, invVars, disVars, cfgVars>>

\* The caller of All reorders the list it was given: it exchanges the agents
\* at i and j.  The write reaches the registry if the list is its storage.
CallerSwaps(i, j) ==
    /\ regCall = "All"
    /\ i \in 1..Len(allOut)
    /\ j \in 1..Len(allOut)
    /\ i < j
    /\ allOut' = Swap(allOut, i, j)
    /\ registry' = IF ListStorage(registry) = "fresh" THEN registry
                   ELSE [registry EXCEPT !.order = agentNames(Swap(allOut, i, j))]
    /\ UNCHANGED <<regCall, addIn, addErr, accepted, matchIn, matchOut, getOut>>
    /\ UNCHANGED <<reqVars, conVars, evalVars, invVars, disVars, cfgVars>>

\* The caller drops what the last call returned.
DropResult ==
    /\ regCall # "none"
    /\ regCall' = "none"
    /\ addIn' = NilAgent
    /\ addErr' = "nil"
    /\ matchIn' = <<>>
    /\ matchOut' = <<>>
    /\ getOut' = NilAgent
    /\ allOut' = <<>>
    /\ UNCHANGED <<registry, accepted>>
    /\ UNCHANGED <<reqVars, conVars, evalVars, invVars, disVars, cfgVars>>

(***************************************************************************)
(* Orchestrator operations.                                                *)
(***************************************************************************)
\* executeChain is entered: results and contextState are empty.
EnterChain(prompt, agents) ==
    /\ chainPrompt' = prompt
    /\ chainAgents' = agents
    /\ idx' = 1
    /\ results' = <<>>
    /\ contextState' = <<>>
    /\ chainOut' = "unset"
    /\ invocations' = <<>>
    /\ pc' = "loop"

\* RunWithAuto up to its call of executeChain.  cancelled: whether the caller's
\* context is already cancelled; evaluation: what Evaluate(userPrompt)
\* returned; kws: what ExtractKeywords(refinedPrompt) returned.
RunWithAuto(userPrompt, cancelled, evaluation, kws) ==
    /\ pc = "idle"
    /\ evaluation \in Evaluations[userPrompt]
    /\ kws \in Extractions[evaluation.RefinedPrompt]
    /\ LET refinedPrompt == evaluation.RefinedPrompt
           matched == selectAgents(registry, kws, DefaultMaxCount)
           selectedAgents == IF Len(matched) = 0
                             THEN selectTopAgents(registry, FallbackCount)
                             ELSE matched
       IN /\ state' = ContextState(userPrompt, refinedPrompt, evaluation,
                                   agentNames(selectedAgents),
                                   buildRationale(kws, selectedAgents))
          /\ keywords' = kws
          /\ fellBack' = (Len(matched) = 0)
          /\ EnterChain(refinedPrompt, selectedAgents)
    /\ mode' = "auto"
    /\ ctxDone' = cancelled
    /\ retErr' = "nil"
    /\ UNCHANGED <<regVars, conVars, evalVars, invVars, disVars, cfgVars>>

\* The lookup loop of RunWithExplicitChain: what Get returns for each name.
ResolveAll(r, names) == [i \in 1..Len(names) |-> Get(r, names[i])]

\* A lookup that lets every name through.
AllResolvedUnchecked(r, names) == TRUE

\* The lookup loop of RunWithExplicitChain: no Get returned nil.
AllResolved(r, names) == \A i \in 1..Len(names) : Get(r, names[i]) # NilAgent

\* RunWithExplicitChain when a name is not registered: it returns at once.
RunWithExplicitChainNotFound(userPrompt, names, cancelled) ==
    /\ pc = "idle"
    /\ ~AllResolved(registry, names)
    /\ state' = ContextState(userPrompt, userPrompt, ZeroEvaluation, names, "")
    /\ mode' = "explicit"
    /\ ctxDone' = cancelled
    /\ retErr' = "notfound"
    /\ pc' = "returned"
    /\ UNCHANGED <<keywords, fellBack, chainPrompt, chainAgents, idx, results,
                   contextState, chainOut, invocations>>
    /\ UNCHANGED <<regVars, conVars, evalVars, invVars, disVars, cfgVars>>

\* An explicit run that hands the chain the refined prompt, as RunWithAuto does.
RunWithExplicitChainRefining(userPrompt, names, cancelled, evaluation) ==
    /\ pc = "idle"
    /\ AllResolved(registry, names)
    /\ evaluation \in Evaluations[userPrompt]
    /\ state' = ContextState(userPrompt, evaluation.RefinedPrompt, evaluation, names, "")
    /\ EnterChain(evaluation.RefinedPrompt, ResolveAll(registry, names))
    /\ mode' = "explicit"
    /\ ctxDone' = cancelled
    /\ retErr' = "nil"
    /\ UNCHANGED <<keywords, fellBack>>
    /\ UNCHANGED <<regVars, conVars, evalVars, invVars, disVars, cfgVars>>

\* RunWithExplicitChain up to its call of executeChain.
RunWithExplicitChain(userPrompt, names, cancelled, evaluation) ==
    /\ pc = "idle"
    /\ AllResolved(registry, names)
    /\ evaluation \in Evaluations[userPrompt]
    /\ state' = ContextState(userPrompt, userPrompt, evaluation, names, "")
    /\ EnterChain(userPrompt, ResolveAll(registry, names))
    /\ mode' = "explicit"
    /\ ctxDone' = cancelled
    /\ retErr' = "nil"
    /\ UNCHANGED <<keywords, fellBack>>
    /\ UNCHANGED <<regVars, conVars, evalVars, invVars, disVars, cfgVars>>

\* The caller cancels the request's context.
Cancel ==
    /\ pc \in {"loop", "invoke"}
    /\ ~ctxDone
    /\ ctxDone' = TRUE
    /\ UNCHANGED <<pc, mode, state, retErr, keywords, fellBack, chainPrompt,
                   chainAgents, idx, results, contextState, chainOut, invocations>>
    /\ UNCHANGED <<regVars, conVars, evalVars, invVars, disVars, cfgVars>>

\* A loop that never looks at the context.
CancelledIgnored == FALSE

\* A loop that also stops once a step has failed.
CancelledOrFailed == ctxDone \/ (results # <<>> /\ ~results[Len(results)].Success)

\* The select on ctx.Done() at the head of the loop body.
Cancelled == ctxDone

\* A cancelled chain that still synthesizes and hands the report back.
ChainCancelledSynthesizing ==
    /\ pc = "loop"
    /\ idx <= Len(chainAgents)
    /\ Cancelled
    /\ chainOut' = synthesizeOutput(contextState, results)
    /\ state' = [state EXCEPT !.AgentResults = results,
                              !.FinalOutput = synthesizeOutput(contextState, results)]
    /\ retErr' = "canceled"
    /\ pc' = "returned"
    /\ UNCHANGED <<mode, ctxDone, keywords, fellBack, chainPrompt, chainAgents,
                   idx, results, contextState, invocations>>
    /\ UNCHANGED <<regVars, conVars, evalVars, invVars, disVars, cfgVars>>

\* executeChain, head of an iteration with the context done: it returns
\* "", results, ctx.Err(), and the Run* caller returns state, err.
ChainCancelled ==
    /\ pc = "loop"
    /\ idx <= Len(chainAgents)
    /\ Cancelled
    /\ chainOut' = ""
    /\ retErr' = "canceled"
    /\ pc' = "returned"
    /\ UNCHANGED <<mode, ctxDone, state, keywords, fellBack, chainPrompt, chainAgents,
                   idx, results, contextState, invocations>>
    /\ UNCHANGED <<regVars, conVars, evalVars, invVars, disVars, cfgVars>>

\* executeChain, an iteration up to its call of InvokeAgent.
ChainInvoke ==
    /\ pc = "loop"
    /\ idx <= Len(chainAgents)
    /\ ~Cancelled
    /\ invocations' =
           Append(invocations,
                  [agent |-> chainAgents[idx].Name,
                   prompt |-> buildAgentPrompt(chainPrompt, chainAgents[idx],
                                               contextState),
                   ctxDone |-> ctxDone,
                   err |-> "pending"])
    /\ pc' = "invoke"
    /\ UNCHANGED <<mode, ctxDone, state, retErr, keywords, fellBack, chainPrompt,
                   chainAgents, idx, results, contextState, chainOut>>
    /\ UNCHANGED <<regVars, conVars, evalVars, invVars, disVars, cfgVars>>

\* executeChain, the rest of the iteration once InvokeAgent has returned.
\* A run that fails on the cancelled context happens only with the context done.
ChainRecord(run) ==
    /\ pc = "invoke"
    /\ run.err = "canceled" => ctxDone
    /\ LET invoked == InvokeAgent(chainAgents[idx].Name,
                                  invocations[Len(invocations)].prompt, run)
           result == RecordedResult(chainAgents[idx], invoked)
       IN /\ results' = RecordOutcome(results, result)
          /\ contextState' = Forward(contextState, result)
          /\ invocations' = [invocations EXCEPT ![Len(invocations)].err = invoked.err]
    /\ idx' = NextStep(idx)
    /\ pc' = "loop"
    /\ UNCHANGED <<mode, ctxDone, state, retErr, keywords, fellBack, chainPrompt,
                   chainAgents, chainOut>>
    /\ UNCHANGED <<regVars, conVars, evalVars, invVars, disVars, cfgVars>>

\* An executor that gives up on a collaborator's error and returns it.
ChainRecordErrorAborting(err) ==
    /\ pc = "invoke"
    /\ invocations' = [invocations EXCEPT ![Len(invocations)].err = err]
    /\ chainOut' = ""
    /\ retErr' = err
    /\ pc' = "returned"
    /\ UNCHANGED <<mode, ctxDone, state, keywords, fellBack, chainPrompt, chainAgents,
                   idx, results, contextState>>
    /\ UNCHANGED <<regVars, conVars, evalVars, invVars, disVars, cfgVars>>

\* The same, for a collaborator that returns an error instead of a result.
\* Invoker.InvokeAgent as shipped always returns a nil error, so this step
\* belongs to SpecCollaborator only: executeChain against any collaborator
\* with InvokeAgent's signature.
ChainRecordError(err) ==
    /\ pc = "invoke"
    /\ LET invoked == [result |-> NilResult, err |-> err]
           result == RecordedResult(chainAgents[idx], invoked)
       IN /\ results' = RecordOutcome(results, result)
          /\ contextState' = Forward(contextState, result)
          /\ invocations' = [invocations EXCEPT ![Len(invocations)].err = invoked.err]
    /\ idx' = NextStep(idx)
    /\ pc' = "loop"
    /\ UNCHANGED <<mode, ctxDone, state, retErr, keywords, fellBack, chainPrompt,
                   chainAgents, chainOut>>
    /\ UNCHANGED <<regVars, conVars, evalVars, invVars, disVars, cfgVars>>

\* What the Run* caller stores in the state after executeChain returned nil.
StoreResults(st, rs, finalOutput) ==
    [st EXCEPT !.AgentResults = rs, !.FinalOutput = finalOutput]

\* An executor that looks at the context once more after the loop.
ChainFinishChecking ==
    /\ pc = "loop"
    /\ idx > Len(chainAgents)
    /\ chainOut' = IF ctxDone THEN "" ELSE synthesizeOutput(contextState, results)
    /\ state' = IF ctxDone THEN state
                ELSE StoreResults(state, results,
                                  synthesizeOutput(contextState, results))
    /\ retErr' = IF ctxDone THEN "canceled" ELSE "nil"
    /\ pc' = "returned"
    /\ UNCHANGED <<mode, ctxDone, keywords, fellBack, chainPrompt, chainAgents, idx,
                   results, contextState, invocations>>
    /\ UNCHANGED <<regVars, conVars, evalVars, invVars, disVars, cfgVars>>

\* executeChain after the loop: it synthesizes and returns finalOutput,
\* results, nil; the Run* caller stores both in the state and returns it.
ChainFinish ==
    /\ pc = "loop"
    /\ idx > Len(chainAgents)
    /\ chainOut' = synthesizeOutput(contextState, results)
    /\ state' = StoreResults(state, results, synthesizeOutput(contextState, results))
    /\ retErr' = "nil"
    /\ pc' = "returned"
    /\ UNCHANGED <<mode, ctxDone, keywords, fellBack, chainPrompt, chainAgents, idx,
                   results, contextState, invocations>>
    /\ UNCHANGED <<regVars, conVars, evalVars, invVars, disVars, cfgVars>>

\* The response has been sent; the request's state is discarded.
Discard ==
    /\ pc = "returned"
    /\ pc' = "idle"
    /\ mode' = "none"
    /\ ctxDone' = FALSE
    /\ state' = ContextState("", "", ZeroEvaluation, <<>>, "")
    /\ retErr' = "nil"
    /\ keywords' = <<>>
    /\ fellBack' = FALSE
    /\ chainPrompt' = ""
    /\ chainAgents' = <<>>
    /\ idx' = 0
    /\ results' = <<>>
    /\ contextState' = <<>>
    /\ chainOut' = "unset"
    /\ invocations' = <<>>
    /\ UNCHANGED <<regVars, conVars, evalVars, invVars, disVars, cfgVars>>

(***************************************************************************)
(* The same operations, run by several goroutines on one Orchestrator.     *)
(* Request r keeps the locals of its Run* call in reqs[r] and those of its *)
(* executeChain in frames[Frame(r)]; the registry is the one they share.   *)
(***************************************************************************)
\* Requests the goroutines are given.
ConcurrentAutoPrompts == {"Review auth.go for bugs"}
ConcurrentChains == {<<"test-generator", "code-reviewer">>}
ConcurrentRuns == {RunOK, RunFailed, RunCanceled}

\* RunWithAuto by request r, up to its call of executeChain.
ConcurrentRunWithAuto(r, userPrompt, evaluation, kws) ==
    /\ reqs[r].pc = "idle"
    /\ evaluation \in Evaluations[userPrompt]
    /\ kws \in Extractions[evaluation.RefinedPrompt]
    /\ LET refinedPrompt == evaluation.RefinedPrompt
           matched == selectAgents(registry, kws, DefaultMaxCount)
           selectedAgents == IF Len(matched) = 0
                             THEN selectTopAgents(registry, FallbackCount)
                             ELSE matched
       IN reqs' = [reqs EXCEPT ![r] =
                      [pc |-> "loop", mode |-> "auto", ctxDone |-> FALSE,
                       state |-> ContextState(userPrompt, refinedPrompt, evaluation,
                                              agentNames(selectedAgents),
                                              buildRationale(kws, selectedAgents)),
                       retErr |-> "nil", keywords |-> kws,
                       chainPrompt |-> refinedPrompt, chainAgents |-> selectedAgents,
                       idx |-> 1, agentPrompt |-> "", runs |-> <<>>]]
    /\ frames' = [frames EXCEPT ![Frame(r)] = EmptyFrame]
    /\ UNCHANGED <<regVars, reqVars, evalVars, invVars, disVars, cfgVars>>

\* RunWithExplicitChain by request r, every name registered.
ConcurrentRunWithExplicitChain(r, userPrompt, names, evaluation) ==
    /\ reqs[r].pc = "idle"
    /\ AllResolved(registry, names)
    /\ evaluation \in Evaluations[userPrompt]
    /\ reqs' = [reqs EXCEPT ![r] =
                   [pc |-> "loop", mode |-> "explicit", ctxDone |-> FALSE,
                    state |-> ContextState(userPrompt, userPrompt, evaluation, names, ""),
                    retErr |-> "nil", keywords |-> <<>>,
                    chainPrompt |-> userPrompt,
                    chainAgents |-> ResolveAll(registry, names),
                    idx |-> 1, agentPrompt |-> "", runs |-> <<>>]]
    /\ frames' = [frames EXCEPT ![Frame(r)] = EmptyFrame]
    /\ UNCHANGED <<regVars, reqVars, evalVars, invVars, disVars, cfgVars>>

\* The caller of request r cancels its context.
ConcurrentCancel(r) ==
    /\ reqs[r].pc \in {"loop", "invoke"}
    /\ ~reqs[r].ctxDone
    /\ reqs' = [reqs EXCEPT ![r].ctxDone = TRUE]
    /\ UNCHANGED <<frames, regVars, reqVars, evalVars, invVars, disVars, cfgVars>>

\* executeChain of request r, head of an iteration with the context done.
ConcurrentChainCancelled(r) ==
    /\ reqs[r].pc = "loop"
    /\ reqs[r].idx <= Len(reqs[r].chainAgents)
    /\ reqs[r].ctxDone
    /\ reqs' = [reqs EXCEPT ![r].retErr = "canceled", ![r].pc = "returned"]
    /\ UNCHANGED <<frames, regVars, reqVars, evalVars, invVars, disVars, cfgVars>>

\* executeChain of request r, an iteration up to its call of InvokeAgent.
ConcurrentChainInvoke(r) ==
    /\ reqs[r].pc = "loop"
    /\ reqs[r].idx <= Len(reqs[r].chainAgents)
    /\ ~reqs[r].ctxDone
    /\ reqs' = [reqs EXCEPT
                   ![r].agentPrompt =
                       buildAgentPrompt(reqs[r].chainPrompt,
                                        reqs[r].chainAgents[reqs[r].idx],
                                        frames[Frame(r)].contextState),
                   ![r].pc = "invoke"]
    /\ UNCHANGED <<frames, regVars, reqVars, evalVars, invVars, disVars, cfgVars>>

\* executeChain of request r, the rest of the iteration.
ConcurrentChainRecord(r, run) ==
    /\ reqs[r].pc = "invoke"
    /\ run.err = "canceled" => reqs[r].ctxDone
    /\ LET agent == reqs[r].chainAgents[reqs[r].idx]
           invoked == InvokeAgent(agent.Name, reqs[r].agentPrompt, run)
           result == RecordedResult(agent, invoked)
       IN frames' = [frames EXCEPT ![Frame(r)] =
                        [results |-> Append(@.results, result),
                         contextState |-> Forward(@.contextState, result)]]
    /\ reqs' = [reqs EXCEPT ![r].idx = @ + 1, ![r].pc = "loop",
                            ![r].runs = Append(@, run)]
    /\ UNCHANGED <<regVars, reqVars, evalVars, invVars, disVars, cfgVars>>

\* executeChain of request r after the loop, and the return of its Run* call.
ConcurrentChainFinish(r) ==
    /\ reqs[r].pc = "loop"
    /\ reqs[r].idx > Len(reqs[r].chainAgents)
    /\ reqs' = [reqs EXCEPT
                   ![r].state =
                       StoreResults(@, frames[Frame(r)].results,
                                    synthesizeOutput(frames[Frame(r)].contextState,
                                                     frames[Frame(r)].results)),
                   ![r].pc = "returned"]
    /\ UNCHANGED <<frames, regVars, reqVars, evalVars, invVars, disVars, cfgVars>>

\* The response of request r has been sent: the locals of its calls are
\* gone, and its goroutine takes another request.
ConcurrentDiscard(r) ==
    /\ reqs[r].pc = "returned"
    /\ reqs' = [reqs EXCEPT ![r] = IdleRequest]
    /\ frames' = [frames EXCEPT ![Frame(r)] = EmptyFrame]
    /\ UNCHANGED <<regVars, reqVars, evalVars, invVars, disVars, cfgVars>>

NextConcurrent ==
    \E r \in Requests :
        \/ \E p \in ConcurrentAutoPrompts :
               \E e \in Evaluations[p] : \E kws \in Extractions[e.RefinedPrompt] :
                   ConcurrentRunWithAuto(r, p, e, kws)
        \/ \E p \in ExplicitPrompts, ns \in ConcurrentChains :
               \E e \in Evaluations[p] : ConcurrentRunWithExplicitChain(r, p, ns, e)
        \/ ConcurrentCancel(r)
        \/ ConcurrentChainCancelled(r)
        \/ ConcurrentChainInvoke(r)
        \/ \E run \in ConcurrentRuns : ConcurrentChainRecord(r, run)
        \/ ConcurrentChainFinish(r)
        \/ ConcurrentDiscard(r)

\* Two goroutines on an Orchestrator whose registry holds the whole catalog.
InitConcurrent ==
    /\ registry = RegistryOf(<<CodeReviewer, TestGenerator, ArchitectureAdvisor,
                               DocumentationWriter>>)
    /\ accepted = All(registry)
    /\ NoRegistryCall
    /\ NoRequest
    /\ NoConcurrentRequests
    /\ NoEvaluatorCalls
    /\ NoInvokerCalls
    /\ NoDiscovery
    /\ NoConfig

SpecConcurrent == InitConcurrent /\ [][NextConcurrent]_vars

(***************************************************************************)
(* Calls on an Evaluator, and on ExtractKeywords, made one after another.  *)
(***************************************************************************)
\* Prompts: empty and blank ones, and ones that draw every penalty and bonus.
EvaluatorPrompts ==
    {"", "   ", "\t\n", "thing", "Fix it", "stuff()", "a/b", "Hello world",
     "refactoring()", "Fix the thing", "Review auth.go for bugs",
     "Review the test design", "check this func in x.go",
     "Review func main() in auth.go", "check this thing now", "documentation",
     "Fix the thing for me"}

EvaluatorResults == [p \in EvaluatorPrompts |-> EvaluateOutcomes(p)] @@ <<>>

ExtractResults == [p \in EvaluatorPrompts |-> ExtractOutcomes(p)] @@ <<>>

EvaluateCall(prompt, out) ==
    /\ Len(evalLog) < MaxCalls
    /\ out \in EvaluatorResults[prompt]
    /\ evalLog' = Append(evalLog, [op |-> "Evaluate", prompt |-> prompt, out |-> out])
    /\ UNCHANGED <<regVars, reqVars, conVars, invVars, disVars, cfgVars>>

ExtractKeywordsCall(prompt, out) ==
    /\ Len(evalLog) < MaxCalls
    /\ out \in ExtractResults[prompt]
    /\ evalLog' = Append(evalLog,
                         [op |-> "ExtractKeywords", prompt |-> prompt, out |-> out])
    /\ UNCHANGED <<regVars, reqVars, conVars, invVars, disVars, cfgVars>>

\* The refined prompts Evaluate hands back, which a caller can evaluate again.
RefinedPrompts ==
    {out.RefinedPrompt : out \in UNION {EvaluatorResults[p] : p \in EvaluatorPrompts}}

RefinedResults == [p \in RefinedPrompts |-> EvaluateOutcomes(p)] @@ <<>>

\* Evaluate called on the RefinedPrompt of an earlier evaluation.
EvaluateRefinedCall(i, out) ==
    /\ Len(evalLog) < MaxCalls
    /\ i \in 1..Len(evalLog)
    /\ evalLog[i].op = "Evaluate"
    /\ out \in RefinedResults[evalLog[i].out.RefinedPrompt]
    /\ evalLog' = Append(evalLog, [op |-> "Evaluate",
                                   prompt |-> evalLog[i].out.RefinedPrompt,
                                   out |-> out])
    /\ UNCHANGED <<regVars, reqVars, conVars, invVars, disVars, cfgVars>>

NextEvaluator ==
    \/ \E p \in EvaluatorPrompts : \E out \in EvaluatorResults[p] : EvaluateCall(p, out)
    \/ \E i \in {k \in 1..Len(evalLog) : evalLog[k].op = "Evaluate"} :
           \E out \in RefinedResults[evalLog[i].out.RefinedPrompt] :
               EvaluateRefinedCall(i, out)
    \/ \E p \in EvaluatorPrompts : \E out \in ExtractResults[p] :
           ExtractKeywordsCall(p, out)

SpecEvaluator == InitRegistry /\ [][NextEvaluator]_vars

\* ---------------------------------------------------------------------------
\* The Invoker on its own: InvokeAgent called directly.

\* NewInvoker(timeout, logger) with the default timeout.
NewInvoker == [timeout |-> TimeoutText, retries |-> 1]

\* The number of times one call of InvokeAgent runs the command: cmd.Run() is
\* called once, outside any loop, and the retries field is never read.
CommandRuns(invoker) == 1

\* Further runs of the command: exit 0 with nothing on stdout, a failure the
\* CLI reports as temporary, a copilot binary that is not installed, and a
\* process killed at the deadline.
RunSilent == CmdRun("nil", 0, "", "")
RunTransient == CmdRun("exit", 1, "", "temporary failure: connection reset")
RunNotFound == CmdRun("notfound", 0, "", "")
RunTimedOut == CmdRun("deadline", -1, "", "")

InvokerRuns == CmdRuns \cup {RunSilent, RunTransient, RunNotFound, RunTimedOut}

InvokerAgents == {"code-reviewer", "unknown"}

InvokerPrompts == {"Review auth.go for bugs"}

\* One call of InvokeAgent: the command runs, and the call returns what it
\* makes of the last run.
InvokeAgentCall(agentName, prompt, runs) ==
    /\ Len(invokeLog) < MaxCalls
    /\ Len(runs) = CommandRuns(NewInvoker)
    /\ LET ret == InvokeAgent(agentName, prompt, runs[Len(runs)])
       IN invokeLog' = Append(invokeLog,
                              [agent |-> agentName, prompt |-> prompt, runs |-> runs,
                               result |-> ret.result, err |-> ret.err])
    /\ UNCHANGED <<regVars, reqVars, conVars, evalVars, disVars, cfgVars>>

NextInvoker ==
    \E a \in InvokerAgents, p \in InvokerPrompts :
        \E runs \in [1..CommandRuns(NewInvoker) -> InvokerRuns] :
            InvokeAgentCall(a, p, runs)

SpecInvoker == InitRegistry /\ [][NextInvoker]_vars

\* ---------------------------------------------------------------------------
\* internal/agents: Discovery.

\* strings.HasPrefix, HasSuffix, TrimPrefix, TrimSuffix
HasPrefix(s, p) == At(s, p, 1)
HasSuffix(s, p) == At(s, p, Len(s) - Len(p) + 1)
TrimPrefix(s, p) == IF HasPrefix(s, p) THEN SubSeq(s, Len(p) + 1, Len(s)) ELSE s
TrimSuffix(s, p) == IF HasSuffix(s, p) THEN SubSeq(s, 1, Len(s) - Len(p)) ELSE s

\* strings.Split(s, sep) for a separator of one character.
RECURSIVE Split(_, _)
Split(s, sep) ==
    LET cuts == {i \in 1..Len(s) : Char(s, i) = sep}
    IN IF cuts = {} THEN <<s>>
       ELSE LET c == CHOOSE i \in cuts : \A j \in cuts : i <= j
            IN <<SubSeq(s, 1, c - 1)>> \o Split(SubSeq(s, c + 1, Len(s)), sep)

\* strings.Trim(s, cutset)
Trim(s, cutset) ==
    LET solid == {i \in 1..Len(s) : Char(s, i) \notin cutset}
    IN IF solid = {} THEN ""
       ELSE SubSeq(s, CHOOSE i \in solid : \A j \in solid : i <= j,
                      CHOOSE i \in solid : \A j \in solid : i >= j)

Quotes == {"\"", "'"}

\* extractFrontmatter: the first submatch of ^---\s*\n([\s\S]*?)\n--- in content.
\* \s* is greedy and the group is not: the opening line ends at the last
\* newline k of the white space after the dashes for which a closing "\n---"
\* follows, and the group ends at the first such closing.
extractFrontmatter(content) ==
    LET closings(k) == {e \in (k + 1)..Len(content) : At(content, "\n---", e)}
        openings == {k \in 4..Len(content) :
                        /\ Char(content, k) = "\n"
                        /\ \A j \in 4..(k - 1) : Char(content, j) \in Space
                        /\ closings(k) # {}}
    IN IF ~HasPrefix(content, "---") \/ openings = {}
       THEN [text |-> "", err |-> "frontmatter not found"]
       ELSE LET k == CHOOSE i \in openings : \A j \in openings : i >= j
                e == CHOOSE i \in closings(k) : \A j \in closings(k) : i <= j
            IN [text |-> SubSeq(content, k + 1, e - 1), err |-> "nil"]

\* The keywords of one "keywords:" line, or none when the value is not a
\* bracketed list.
RECURSIVE KeywordParts(_, _)
KeywordParts(parts, i) ==
    IF i > Len(parts) THEN <<>>
    ELSE LET kw == Trim(TrimSpace(parts[i]), Quotes)
         IN (IF kw # "" THEN <<kw>> ELSE <<>>) \o KeywordParts(parts, i + 1)

ParseKeywords(line) ==
    LET keywordsStr == TrimSpace(TrimPrefix(line, "keywords:"))
    IN IF HasPrefix(keywordsStr, "[") /\ HasSuffix(keywordsStr, "]")
       THEN KeywordParts(Split(TrimSuffix(TrimPrefix(keywordsStr, "["), "]"), ","), 1)
       ELSE <<>>

\* The loop over the lines of the frontmatter, from line i on.
RECURSIVE ParseLines(_, _, _)
ParseLines(lines, i, agent) ==
    IF i > Len(lines) THEN agent
    ELSE LET line == TrimSpace(lines[i])
         IN ParseLines(lines, i + 1,
                IF HasPrefix(line, "name:")
                THEN [agent EXCEPT !.Name = TrimSpace(TrimPrefix(line, "name:"))]
                ELSE IF HasPrefix(line, "description:")
                THEN [agent EXCEPT
                         !.Description = TrimSpace(TrimPrefix(line, "description:"))]
                ELSE IF HasPrefix(line, "keywords:")
                THEN [agent EXCEPT !.Keywords = @ \o ParseKeywords(line)]
                ELSE agent)

\* parseAgentFile: the agent and the error it returns for a file.
parseAgentFile(file) ==
    LET frontmatter == extractFrontmatter(file.content)
        agent == ParseLines(Split(frontmatter.text, "\n"), 1, Agent("", "", <<>>))
    IN IF ~file.readable THEN [agent |-> NilAgent, err |-> "failed to read file"]
       ELSE IF frontmatter.err # "nil"
       THEN [agent |-> NilAgent, err |-> "failed to extract frontmatter"]
       ELSE IF frontmatter.text = ""
       THEN [agent |-> NilAgent, err |-> "no frontmatter found"]
       ELSE IF agent.Name = ""
       THEN [agent |-> NilAgent, err |-> "agent name not found in frontmatter"]
       ELSE [agent |-> agent, err |-> "nil"]

\* An entry of the agents directory.
File(name, isDir, readable, content) ==
    [name |-> name, isDir |-> isDir, readable |-> readable, content |-> content]

\* The entries the directory is populated from, in name order.
AgentFiles ==
    <<File("architect.txt", FALSE, TRUE, "---\nname: architecture-advisor\n---\n"),
      File("broken.md", FALSE, TRUE, "# Broken\nname: broken\n"),
      File("code-reviewer.md", FALSE, TRUE,
           "---\nname: code-reviewer\ndescription: Reviews code\n"
           \o "keywords: [code-review, \"go\"]\n---\n# Code reviewer\n"),
      File("duplicate.md", FALSE, TRUE,
           "---\nname: code-reviewer\ndescription: Second\n---\n"),
      File("nameless.md", FALSE, TRUE, "---\ndescription: No name\n---\n"),
      File("secret.md", FALSE, FALSE, "---\nname: secret\n---\n"),
      File("sub.md", TRUE, TRUE, ""),
      File("test-generator.md", FALSE, TRUE,
           "--- \n  name:  test-generator \nkeywords: ['testing', unit]\n---")>>

\* parseAgentFile, tabulated for these entries.
ParsedFiles == [k \in 1..Len(AgentFiles) |-> parseAgentFile(AgentFiles[k])] @@ <<>>

\* The entries with the given indices, in name order.
RECURSIVE Entries(_, _)
Entries(indices, k) ==
    IF k > Len(AgentFiles) THEN <<>>
    ELSE (IF k \in indices THEN <<k>> ELSE <<>>) \o Entries(indices, k + 1)

\* The states of .github/agents: missing, present but unreadable, or readable
\* with any selection of the entries (an entry is named by its index).
Directories ==
    {MissingDir, Directory(TRUE, FALSE, <<>>)}
    \cup {Directory(TRUE, TRUE, Entries(ix, 1)) : ix \in SUBSET (1..Len(AgentFiles))}

\* A Discover that gives up at the first file it cannot use.
AbortOnFile(acc, err) == [acc EXCEPT !.err = err]

\* Discover on a file that does not parse or whose agent Add rejects: a
\* warning is logged and the loop continues.
SkipFile(acc, err) == acc

\* The loop of Discover over the entries, from entry i on.
RECURSIVE DiscoverEntries(_, _, _)
DiscoverEntries(entries, i, acc) ==
    IF i > Len(entries) \/ acc.err # "nil" THEN acc
    ELSE LET file == AgentFiles[entries[i]]
             parsed == ParsedFiles[entries[i]]
         IN DiscoverEntries(entries, i + 1,
                IF file.isDir \/ ~HasSuffix(file.name, ".md") THEN acc
                ELSE IF parsed.err # "nil" THEN SkipFile(acc, parsed.err)
                ELSE IF AddError(acc.registry, parsed.agent) # "nil"
                THEN SkipFile(acc, AddError(acc.registry, parsed.agent))
                ELSE [acc EXCEPT !.registry = Add(acc.registry, parsed.agent)])

\* Discovery.Discover on registry r: the registry afterwards and the error.
Discover(r, dir) ==
    IF ~dir.exists THEN [registry |-> r, err |-> "nil"]
    ELSE IF ~dir.readable
    THEN [registry |-> r, err |-> "failed to read agents directory"]
    ELSE DiscoverEntries(dir.entries, 1, [registry |-> r, err |-> "nil"])

\* NewDiscovery on a repository: an empty registry, nothing scanned yet.
InitDiscovery ==
    /\ registry = NewRegistry
    /\ accepted = <<>>
    /\ NoRegistryCall
    /\ NoRequest
    /\ NoConcurrentRequests
    /\ NoEvaluatorCalls
    /\ NoInvokerCalls
    /\ agentsDir \in Directories
    /\ discoverLog = <<>>
    /\ NoConfig

DiscoverCall ==
    /\ Len(discoverLog) < MaxCalls
    /\ LET ret == Discover(registry, agentsDir)
       IN /\ registry' = ret.registry
          /\ accepted' = All(ret.registry)
          /\ discoverLog' = Append(discoverLog, [err |-> ret.err, before |-> registry,
                                                 after |-> ret.registry])
    /\ UNCHANGED <<regCall, addIn, addErr, matchIn, matchOut, getOut, allOut>>
    /\ UNCHANGED <<agentsDir, reqVars, conVars, evalVars, invVars, cfgVars>>

NextDiscovery == DiscoverCall

SpecDiscovery == InitDiscovery /\ [][NextDiscovery]_vars

\* ---------------------------------------------------------------------------
\* internal/config: LoadFromEnv.

IsDigit(c) == \E i \in 1..Len(Digits) : Char(Digits, i) = c

\* The length of the longest prefix of s made of digits (wanted = TRUE) or of
\* other characters (wanted = FALSE).
RECURSIVE Run(_, _)
Run(s, wanted) ==
    IF s = "" \/ IsDigit(Char(s, 1)) # wanted THEN 0
    ELSE 1 + Run(SubSeq(s, 2, Len(s)), wanted)

\* The number a string of digits denotes.
RECURSIVE Atoi(_)
Atoi(s) ==
    IF s = "" THEN 0
    ELSE 10 * Atoi(SubSeq(s, 1, Len(s) - 1))
         + (CHOOSE d \in 0..9 : Char(Digits, d + 1) = Char(s, Len(s)))

\* The units of time.ParseDuration from the second up, in seconds.
DurationUnits == [u \in {"s", "m", "h"} |-> CASE u = "s" -> 1 [] u = "m" -> 60 [] u = "h" -> 3600]

\* The groups <digits><unit> of a duration string: their sum in seconds, or an
\* error when digits or the unit are missing or the unit is unknown.
RECURSIVE ParseGroups(_)
ParseGroups(s) ==
    IF s = "" THEN [d |-> 0, err |-> "nil"]
    ELSE LET n == Run(s, TRUE)
             rest == SubSeq(s, n + 1, Len(s))
             u == Run(rest, FALSE)
             unit == SubSeq(rest, 1, u)
             tail == ParseGroups(SubSeq(rest, u + 1, Len(rest)))
         IN IF n = 0 THEN [d |-> 0, err |-> "invalid duration"]
            ELSE IF u = 0 THEN [d |-> 0, err |-> "missing unit in duration"]
            ELSE IF unit \notin DOMAIN DurationUnits
            THEN [d |-> 0, err |-> "unknown unit in duration"]
            ELSE IF tail.err # "nil" THEN tail
            ELSE [d |-> Atoi(SubSeq(s, 1, n)) * DurationUnits[unit] + tail.d,
                  err |-> "nil"]

\* time.ParseDuration on unsigned strings without fractions: "0" is zero, the
\* empty string is invalid, anything else is a sequence of groups.
ParseDuration(s) ==
    IF s = "0" THEN [d |-> 0, err |-> "nil"]
    ELSE IF s = "" THEN [d |-> 0, err |-> "invalid duration"]
    ELSE ParseGroups(s)

\* strconv.ParseBool
TrueStrings == {"1", "t", "T", "TRUE", "true", "True"}
FalseStrings == {"0", "f", "F", "FALSE", "false", "False"}

getEnv(val, defaultVal) == IF val # "" THEN val ELSE defaultVal

getEnvBool(val, defaultVal) ==
    IF val = "" THEN defaultVal
    ELSE IF val \in TrueStrings THEN TRUE
    ELSE IF val \in FalseStrings THEN FALSE
    ELSE defaultVal

getEnvDuration(val, defaultVal) ==
    IF val = "" THEN defaultVal
    ELSE IF ParseDuration(val).err # "nil" THEN defaultVal
    ELSE ParseDuration(val).d

\* The default of COPILOT_CLI_TIMEOUT, 300*time.Second, in seconds.
DefaultCLITimeout == 300

\* LoadFromEnv: the Config it returns, CLITimeout in seconds.
LoadFromEnv(e) ==
    [RepoRoot |-> getEnv(e.REPO_ROOT, "."),
     LogLevel |-> getEnv(e.LOG_LEVEL, "info"),
     CacheEnabled |-> getEnvBool(e.CACHE_ENABLED, TRUE),
     CLITimeout |-> getEnvDuration(e.COPILOT_CLI_TIMEOUT, DefaultCLITimeout)]

\* The environments the process is started in.
Environments ==
    [REPO_ROOT : {"", "/repo"},
     LOG_LEVEL : {"", "debug"},
     CACHE_ENABLED : {"", "false", "1", "maybe"},
     COPILOT_CLI_TIMEOUT : {"", "0", "60", "120", "60s", "5m", "1m30s", "1h", "60sec",
                            "invalid"}]

InitConfig ==
    /\ registry = NewRegistry
    /\ accepted = <<>>
    /\ NoRegistryCall
    /\ NoRequest
    /\ NoConcurrentRequests
    /\ NoEvaluatorCalls
    /\ NoInvokerCalls
    /\ NoDiscovery
    /\ env \in Environments
    /\ cfgLog = <<>>

LoadFromEnvCall ==
    /\ Len(cfgLog) < MaxCalls
    /\ cfgLog' = Append(cfgLog, LoadFromEnv(env))
    /\ UNCHANGED <<env, regVars, reqVars, conVars, evalVars, invVars, disVars>>

NextConfig == LoadFromEnvCall

SpecConfig == InitConfig /\ [][NextConfig]_vars

Next ==
    \/ \E p \in AutoPrompts, c \in BOOLEAN :
           \E e \in Evaluations[p] : \E kws \in Extractions[e.RefinedPrompt] :
               RunWithAuto(p, c, e, kws)
    \/ \E p \in ExplicitPrompts, ns \in SeqsUpTo(ExplicitNames, MaxChain),
          c \in BOOLEAN :
           RunWithExplicitChainNotFound(p, ns, c)
    \/ \E p \in ExplicitPrompts, ns \in SeqsUpTo(ExplicitNames, MaxChain),
          c \in BOOLEAN :
           \E e \in Evaluations[p] : RunWithExplicitChain(p, ns, c, e)
    \/ Cancel
    \/ ChainCancelled
    \/ ChainInvoke
    \/ \E run \in CmdRuns : ChainRecord(run)
    \/ ChainFinish
    \/ Discard

Spec == Init /\ [][Next]_vars

\* The same with the executor running on: every step of executeChain that can
\* be taken is taken, and every invocation of the collaborator returns.
SpecLive ==
    /\ Init /\ [][Next]_vars
    /\ WF_vars(ChainCancelled)
    /\ WF_vars(ChainInvoke)
    /\ WF_vars(\E run \in CmdRuns : ChainRecord(run))
    /\ WF_vars(ChainFinish)

NextCollaborator ==
    \/ Next
    \/ \E err \in CollaboratorErrors : ChainRecordError(err)

SpecCollaborator == Init /\ [][NextCollaborator]_vars

NextRegistry ==
    \/ \E agent \in Catalog : AddCall(agent)
    \/ \E kws \in SeqsUpTo(KeywordInputs, MaxKeywords) : MatchKeywordsCall(kws)
    \/ \E name \in LookupNames : GetCall(name)
    \/ AllCall
    \/ \E i, j \in 1..MaxAgents : CallerSwaps(i, j)
    \/ DropResult

\* An Orchestrator in service: requests, and reads of its registry in between.
NextReadOnly ==
    \/ regCall = "none" /\ Next
    \/ \E kws \in SeqsUpTo(KeywordInputs, MaxKeywords) : MatchKeywordsCall(kws)
    \/ \E name \in LookupNames : GetCall(name)
    \/ AllCall
    \/ \E i, j \in 1..MaxAgents : CallerSwaps(i, j)
    \/ DropResult

SpecReadOnly == Init /\ [][NextReadOnly]_vars

SpecRegistry == InitRegistry /\ [][NextRegistry]_vars

(***************************************************************************)
(* Properties.                                                             *)
(***************************************************************************)
\* executeChain has been entered by the running request.
ChainEntered == pc \in {"loop", "invoke"} \/ (pc = "returned" /\ chainOut # "unset")

\* The request has returned from a chain that ran to its end.
ChainCompleted == pc = "returned" /\ chainOut # "unset" /\ retErr # "canceled"

ChainNames == [k \in 1..Len(chainAgents) |-> chainAgents[k].Name]

\* The successful results among rs, in order.
Successes(rs) == SelectSeq(rs, LAMBDA r : r.Success)

\* C1: a chain whose context is never seen cancelled invokes every capability
\* once, in chain order, whatever each step returned; it returns no error and
\* one outcome per capability, outcome k naming capability k.  While it runs,
\* the capabilities invoked so far are the first ones of the chain, and the
\* only early return is the one on a cancelled context.
C1_FailureContainment ==
    ChainEntered =>
        /\ Len(invocations) = Len(results) + (IF pc = "invoke" THEN 1 ELSE 0)
        /\ \A k \in 1..Len(invocations) : invocations[k].agent = ChainNames[k]
        /\ \A k \in 1..Len(results) : results[k].Agent = ChainNames[k]
        /\ (pc = "returned" /\ retErr = "canceled") => ctxDone
        /\ ChainCompleted =>
              /\ retErr = "nil"
              /\ Len(invocations) = Len(chainAgents)
              /\ Len(results) = Len(chainAgents)
              /\ state.AgentResults = results

\* C1 witness: a completed chain whose first step failed and whose second
\* step was invoked all the same and succeeded.
C1_Witness ==
    /\ ChainCompleted
    /\ Len(results) >= 2
    /\ ~results[1].Success
    /\ results[2].Success
    /\ invocations[2].agent = chainAgents[2].Name

PromptHead(k) ==
    chainPrompt \o "\n\n[Agent Context: You are the " \o chainAgents[k].Name \o ". "
    \o chainAgents[k].Description \o "]"

\* C2: the prompt of the step being invoked holds the previous-results block
\* exactly when an earlier step succeeded, and the block then lists the earlier
\* successful outcomes, and only those, in execution order; a two-step chain
\* whose first step failed and second succeeded reports 2 outcomes, 1 success,
\* and gave step 2 no block.
C2_ForwardedContext ==
    /\ pc = "invoke" =>
          LET k == Len(invocations)
              earlier == Successes(SubSeq(results, 1, k - 1))
              prompt == invocations[k].prompt
          IN /\ Contains(prompt, "[Previous Agent Results:]") <=> earlier # <<>>
             /\ prompt = PromptHead(k)
                         \o (IF earlier = <<>> THEN "" ELSE PreviousBlock(earlier))
    /\ (ChainCompleted /\ Len(chainAgents) = 2 /\ ~results[1].Success
        /\ results[2].Success) =>
          /\ invocations[2].prompt = PromptHead(2)
          /\ Len(state.AgentResults) = 2
          /\ Contains(state.FinalOutput, "Total Agents Executed: 2\n")
          /\ Contains(state.FinalOutput, "Successful Executions: 1\n")

\* C2 witness: step 3 is being invoked after a successful step 1 and a failed
\* step 2 that left output behind.
C2_Witness ==
    /\ pc = "invoke"
    /\ Len(results) = 2
    /\ results[1].Success
    /\ ~results[2].Success
    /\ results[2].Output # NilBytes
    /\ Contains(invocations[3].prompt, "[Previous Agent Results:]")

\* C3: an explicit chain naming an agent that is not registered returns the
\* not-found error without having invoked any agent.
C3_ExplicitFailFast ==
    (mode = "explicit"
     /\ \E i \in 1..Len(state.SelectedAgents) :
            state.SelectedAgents[i] \notin Range(registry.order)) =>
        /\ pc = "returned"
        /\ retErr = "notfound"
        /\ invocations = <<>>
        /\ results = <<>>

\* C3 witness: ["known", "unknown"] returned not-found with nothing invoked.
C3_Witness ==
    /\ mode = "explicit"
    /\ retErr = "notfound"
    /\ Len(state.SelectedAgents) = 2
    /\ state.SelectedAgents[1] \in Range(registry.order)
    /\ state.SelectedAgents[2] \notin Range(registry.order)
    /\ invocations = <<>>

\* C4: no agent is invoked at a step whose boundary finds the context
\* cancelled; the run then returns the cancellation error, the steps from
\* that one on never invoked.
C4_CancellationAtBoundary ==
    /\ \A k \in 1..Len(invocations) : ~invocations[k].ctxDone
    /\ (pc = "returned" /\ chainOut # "unset" /\ ctxDone
        /\ Len(results) < Len(chainAgents)) => retErr = "canceled"
    /\ retErr = "canceled" =>
          /\ pc = "returned"
          /\ ctxDone
          /\ Len(invocations) = Len(results)
          /\ Len(results) = idx - 1
          /\ idx <= Len(chainAgents)

\* C4 witness: cancellation seen at the boundary before step 2.
C4_Witness ==
    /\ pc = "returned"
    /\ retErr = "canceled"
    /\ idx = 2
    /\ Len(invocations) = 1
    /\ Len(chainAgents) >= 2

\* C5: the state returned with the cancellation error carries the outcomes
\* recorded before the cancellation was seen.
C5_PartialOutcomesReturned ==
    (pc = "returned" /\ retErr = "canceled") =>
        /\ Len(state.AgentResults) = idx - 1
        /\ state.AgentResults = results

Position(name) == CHOOSE i \in 1..Len(registry.order) : registry.order[i] = name

\* 2.0 for each keyword of the agent that is among the input keywords.
Score(agent, kws) ==
    2 * Cardinality({i \in 1..Len(agent.Keywords) : agent.Keywords[i] \in Range(kws)})

\* C7: two agents MatchKeywords returns with equal scores appear in the
\* result in the order they were registered in.
C7_StableTieBreak ==
    regCall = "MatchKeywords" =>
        \A i, j \in 1..Len(matchOut) :
            (i < j /\ Score(matchOut[i], matchIn) = Score(matchOut[j], matchIn)) =>
                Position(matchOut[i].Name) < Position(matchOut[j].Name)

Matching(kws) == {n \in DOMAIN registry.agents : Score(registry.agents[n], kws) > 0}

\* C9: the automatic run falls back exactly when no registered agent matches
\* the keywords extracted from the refined prompt; the chain is then the first
\* min(3, registry size) agents in registration order, and the fallback itself
\* raises no error.
C9_Fallback ==
    mode = "auto" =>
        /\ (pc = "loop" /\ idx = 1) =>
              Range(keywords) = Range(ExtractKeywords(state.RefinedPrompt, <<1, 2, 3, 4>>))
        /\ fellBack <=> Matching(keywords) = {}
        /\ fellBack =>
              /\ Len(chainAgents) = Min(3, Len(registry.order))
              /\ \A k \in 1..Len(chainAgents) :
                    chainAgents[k] = registry.agents[registry.order[k]]
              /\ state.SelectedAgents = ChainNames
              /\ retErr = "canceled" => ctxDone
              /\ retErr \in {"nil", "canceled"}

\* C9 witness: a registry of four, nothing matched, the first three ran and
\* the run returned no error.
C9_Witness ==
    /\ mode = "auto"
    /\ fellBack
    /\ Len(registry.order) = 4
    /\ Len(chainAgents) = 3
    /\ pc = "returned"
    /\ retErr = "nil"
    /\ Len(results) = 3

C11_RejectedAddChangesNothing ==
    [][(regCall = "none" /\ regCall' = "Add") =>
          LET rejected == addIn'.Name = "" \/ addIn'.Name \in Range(registry.order)
          IN /\ addErr' # "nil" <=> rejected
             /\ addIn'.Name = "" => addErr' = "empty"
             /\ rejected =>
                   /\ registry'.order = registry.order
                   /\ Len(All(registry')) = Len(All(registry))
                   /\ Get(registry', addIn'.Name) = Get(registry, addIn'.Name)
                   /\ \A n \in Range(registry.order) :
                         Get(registry', n) = Get(registry, n)
                   /\ registry' = registry]_vars

\* C11 witness: a second agent named code-reviewer was rejected, and Get
\* still returns the code-reviewer that was registered first.
C11_Witness ==
    /\ regCall = "Add"
    /\ addIn = DuplicateReviewer
    /\ addErr = "duplicate"
    /\ Get(registry, "code-reviewer") = CodeReviewer
    /\ Len(registry.order) >= 2

\* C12: after any sequence of Add calls, accepted or rejected, All returns
\* exactly the accepted agents, each once, in the order their Adds were
\* accepted; their names are non-empty and pairwise distinct; and Get returns
\* an agent exactly for those names, nil for any other.
C12_RegistryInvariant ==
    /\ All(registry) = accepted
    /\ Len(registry.order) = Cardinality(DOMAIN registry.agents)
    /\ \A i \in 1..Len(accepted) : accepted[i].Name # ""
    /\ \A i, j \in 1..Len(accepted) : i # j => accepted[i].Name # accepted[j].Name
    /\ \A n \in LookupNames :
          IF \E i \in 1..Len(accepted) : accepted[i].Name = n
          THEN \E i \in 1..Len(accepted) : Get(registry, n) = accepted[i]
                                            /\ accepted[i].Name = n
          ELSE Get(registry, n) = NilAgent

\* C12 witness: three Adds were accepted and the last call, a nameless or
\* duplicate agent, was rejected.
C12_Witness ==
    /\ regCall = "Add"
    /\ addErr # "nil"
    /\ Len(accepted) = 3
    /\ All(registry) = accepted
    /\ Get(registry, "unknown") = NilAgent

\* C13: when the collaborator returns an error for a step, the executor
\* records for that agent an outcome with Success false, the error's text and
\* exit code 1 and no output; nothing of it is forwarded; the error is not
\* returned to the caller; and the chain goes on with the next step.
C13_CollaboratorErrorRecorded ==
    ChainEntered =>
        /\ \A k \in 1..Len(results) :
              invocations[k].err # "nil" =>
                 /\ results[k].Agent = chainAgents[k].Name
                 /\ ~results[k].Success
                 /\ results[k].Error = invocations[k].err
                 /\ results[k].Error # ""
                 /\ results[k].ExitCode = 1
                 /\ results[k].Output = NilBytes
                 /\ \A c \in 1..Len(contextState) : contextState[c] # results[k]
        /\ retErr \in {"nil", "canceled"}
        /\ retErr = "canceled" => ctxDone
        /\ (pc = "returned" /\ ~ctxDone) => Len(results) = Len(chainAgents)
        /\ (pc = "loop" /\ ~ctxDone /\ idx <= Len(chainAgents)) => ENABLED ChainInvoke

\* C13 witness: the collaborator failed at step 1, step 2 was invoked and
\* succeeded, and the run returned no error.
C13_Witness ==
    /\ pc = "returned"
    /\ retErr = "nil"
    /\ Len(results) >= 2
    /\ invocations[1].err \in CollaboratorErrors
    /\ ~results[1].Success
    /\ invocations[2].err = "nil"
    /\ results[2].Success
    /\ state.AgentResults = results

\* Some name of the explicit chain is not registered.
UnresolvedName ==
    \E i \in 1..Len(state.SelectedAgents) :
        state.SelectedAgents[i] \notin Range(registry.order)

\* C14: a run returns an error in two cases only, and always in them: the
\* not-found error when an explicit chain names an unregistered agent, and
\* the cancellation error when a step boundary finds the context cancelled.
\* Agents that report failure and collaborator errors leave the returned
\* error nil and show as failed outcomes of the returned state.
C14_ReturnedErrors ==
    pc = "returned" =>
        /\ retErr \in {"nil", "notfound", "canceled"}
        /\ retErr = "notfound" <=> (mode = "explicit" /\ UnresolvedName)
        /\ retErr = "canceled" <=>
              (chainOut # "unset" /\ ctxDone /\ Len(results) < Len(chainAgents))
        /\ retErr = "canceled" => ~ENABLED ChainInvoke
        /\ retErr = "nil" =>
              /\ state.AgentResults = results
              /\ Len(results) = Len(chainAgents)
              /\ \A k \in 1..Len(results) :
                    (invocations[k].err # "nil" \/ results[k].Error # "") =>
                        /\ ~state.AgentResults[k].Success
                        /\ Contains(state.FinalOutput,
                                    "## Agent " \o Itoa(k) \o ": " \o results[k].Agent
                                    \o "\nStatus: x Failed\n")

\* C14 witness: a run that returned no error although one agent reported
\* failure and the collaborator failed for the other.
C14_Witness ==
    /\ pc = "returned"
    /\ retErr = "nil"
    /\ Len(results) = 2
    /\ invocations[1].err = "nil"
    /\ ~results[1].Success
    /\ results[1].ExitCode # 0
    /\ invocations[2].err \in CollaboratorErrors
    /\ ~state.AgentResults[2].Success

\* Where sub occurs in s.
Occurrences(s, sub) == {i \in 1..Len(s) : At(s, sub, i)}

\* The head of block k of a report on rs: index, name and marker.
BlockHead(rs, k) ==
    "## Agent " \o Itoa(k) \o ": " \o rs[k].Agent \o "\n"
    \o (IF rs[k].Success THEN "Status: v Success\n" ELSE "Status: x Failed\n")

\* C15: the report of a chain that ran to its end depends on the outcomes
\* alone: it has one block per outcome, in list order, each with the 1-based
\* index, the agent's name and the success or failure marker; its total is the
\* number of outcomes and its count of successful executions the number of
\* outcomes with Success true; and the same outcomes give the same report
\* whatever the forwarded context.
C15_SynthesisOfOutcomes ==
    (pc = "returned" /\ retErr = "nil") =>
        LET report == state.FinalOutput
            rs == state.AgentResults
            n == Len(rs)
            heads == [k \in 1..n |-> Occurrences(report, BlockHead(rs, k))] @@ <<>>
        IN /\ At(report, "=== Agent Chain Results ===\n\n", 1)
           /\ Cardinality(Occurrences(report, "## Agent ")) = n
           /\ \A k \in 1..n : Cardinality(heads[k]) = 1
           /\ \A k \in 1..(n - 1) : \A i \in heads[k] : \A j \in heads[k + 1] : i < j
           /\ Contains(report, "\n=== Summary ===\nTotal Agents Executed: "
                               \o Itoa(n) \o "\nSuccessful Executions: "
                               \o Itoa(Len(Successes(rs))) \o "\n")
           /\ report = synthesizeOutput(<<>>, rs)
           /\ report = synthesizeOutput(rs, rs)
           /\ report = chainOut

\* C15 witness: a report on three outcomes, the first a success, the second
\* a failure.
C15_Witness ==
    /\ pc = "returned"
    /\ retErr = "nil"
    /\ Len(state.AgentResults) = 3
    /\ state.AgentResults[1].Success
    /\ ~state.AgentResults[2].Success
    /\ Contains(state.FinalOutput, "Total Agents Executed: 3\n")
    /\ contextState # <<>>

\* C16: an explicit run whose names are all registered invokes the agents in
\* the order the caller gave, repeated names included; the prompt each step
\* starts from and the RefinedPrompt of the returned state are the original
\* prompt, also when the evaluation finds it unclear and suggests another;
\* and the evaluation of the original prompt is in the returned state.
C16_ExplicitOrderAndPrompt ==
    (mode = "explicit" /\ ~UnresolvedName) =>
        /\ ChainNames = state.SelectedAgents
        /\ \A k \in 1..Len(invocations) :
              /\ invocations[k].agent = state.SelectedAgents[k]
              /\ At(invocations[k].prompt,
                    state.OriginalPrompt \o "\n\n[Agent Context: You are the "
                    \o state.SelectedAgents[k] \o ". ", 1)
        /\ \A k \in 1..Len(results) : results[k].Agent = state.SelectedAgents[k]
        /\ chainPrompt = state.OriginalPrompt
        /\ state.RefinedPrompt = state.OriginalPrompt
        /\ state.EvaluationFeedback \in Evaluations[state.OriginalPrompt]
        /\ state.EvaluationFeedback # ZeroEvaluation
        /\ (pc = "returned" /\ retErr = "nil") =>
              Len(invocations) = Len(state.SelectedAgents)

\* C16 witness: the same agent named twice and invoked twice, on a prompt the
\* evaluation finds unclear and would refine.
C16_Witness ==
    /\ mode = "explicit"
    /\ pc = "returned"
    /\ retErr = "nil"
    /\ state.SelectedAgents = <<"test-generator", "test-generator">>
    /\ Len(invocations) = 2
    /\ ~state.EvaluationFeedback.IsClear
    /\ state.EvaluationFeedback.RefinedPrompt # state.OriginalPrompt
    /\ state.RefinedPrompt = state.OriginalPrompt

\* executeChain run on its own: its results and contextState after the first
\* k steps, step i answered by runs[i].
RECURSIVE Alone(_, _, _, _)
Alone(prompt, agents, runs, k) ==
    IF k = 0 THEN EmptyFrame
    ELSE LET before == Alone(prompt, agents, runs, k - 1)
             invoked == InvokeAgent(agents[k].Name,
                                    buildAgentPrompt(prompt, agents[k],
                                                     before.contextState),
                                    runs[k])
             result == RecordedResult(agents[k], invoked)
         IN [results |-> Append(before.results, result),
             contextState |-> Forward(before.contextState, result)]

\* C17: under every interleaving of two requests on one Orchestrator, what a
\* request holds is what it would hold had it run alone with the same answers
\* from its invocations: its results, its forwarded context, the prompt of the
\* step it is invoking, its selected names and, once returned, its report.
C17_RequestsIsolated ==
    \A r \in Requests :
        reqs[r].pc # "idle" =>
            LET q == reqs[r]
                alone == Alone(q.chainPrompt, q.chainAgents, q.runs, Len(q.runs))
            IN /\ frames[Frame(r)] = alone
               /\ Len(q.runs) = q.idx - 1
               /\ q.pc = "invoke" =>
                     q.agentPrompt = buildAgentPrompt(q.chainPrompt,
                                                      q.chainAgents[q.idx],
                                                      alone.contextState)
               /\ q.state.SelectedAgents = agentNames(q.chainAgents)
               /\ q.mode = "auto" =>
                     q.chainAgents = selectAgents(registry, q.keywords, DefaultMaxCount)
               /\ (q.pc = "returned" /\ q.retErr = "nil") =>
                     /\ q.state.AgentResults = alone.results
                     /\ q.state.FinalOutput =
                           synthesizeOutput(alone.contextState, alone.results)
               /\ (q.pc = "returned" /\ q.retErr = "canceled") =>
                     /\ q.state.AgentResults = <<>>
                     /\ q.state.FinalOutput = ""

\* C17 witness: both requests are in their second step at once, with
\* different results behind them.
C17_Witness ==
    /\ reqs[1].pc = "invoke"
    /\ reqs[2].pc = "invoke"
    /\ reqs[1].idx = 2
    /\ reqs[2].idx = 2
    /\ frames[1].results[1].Success
    /\ ~frames[2].results[1].Success
    /\ frames[1].contextState # frames[2].contextState

\* C18: once the Orchestrator is in service its registry never changes: not
\* by RunWithAuto (its fallback truncation included), RunWithExplicitChain or
\* ListAgents, not by Get, All or MatchKeywords, and not by what a caller does
\* to a list All gave it, the list being a new one at each call.
C18_RegistryReadOnly ==
    [][/\ registry' = registry
       /\ All(registry') = All(registry)
       /\ DOMAIN registry'.agents = DOMAIN registry.agents]_vars

\* C18 witness: a caller holds a list from All that it has reordered, and
\* the registry still has its agents in registration order.
C18_Witness ==
    /\ regCall = "All"
    /\ Len(allOut) >= 3
    /\ allOut # All(registry)
    /\ All(registry) = accepted

\* C19: two calls of ExtractKeywords on the same prompt return the same
\* keywords in the same order.
C19_ExtractKeywordsSameOrder ==
    \A i, j \in 1..Len(evalLog) :
        (/\ evalLog[i].op = "ExtractKeywords"
         /\ evalLog[j].op = "ExtractKeywords"
         /\ evalLog[i].prompt = evalLog[j].prompt) => evalLog[i].out = evalLog[j].out

\* The penalties and bonuses Evaluate applies to a prompt, counted from the
\* prompt itself.
Penalties(prompt) ==
    (IF Len(prompt) < 10 THEN 1 ELSE 0)
    + (IF FieldCount(prompt) < 2 THEN 1 ELSE 0)
    + (IF IsVague(prompt) THEN 1 ELSE 0)

Bonuses(prompt) ==
    (IF Contains(prompt, ".go") \/ Contains(prompt, "/") THEN 1 ELSE 0)
    + (IF Contains(prompt, "func") \/ Contains(prompt, "()") THEN 1 ELSE 0)
    + (IF containsActionVerb(prompt) THEN 1 ELSE 0)

\* C20: the confidence Evaluate returns is within [0, 1] (0 to 10 tenths) for
\* every prompt, empty and blank ones and ones with all three penalties or all
\* three bonuses included, and IsClear holds exactly when the confidence is at
\* least 0.7.
C20_ConfidenceRange ==
    \A i \in 1..Len(evalLog) :
        evalLog[i].op = "Evaluate" =>
            LET out == evalLog[i].out
                prompt == TrimSpace(evalLog[i].prompt)
            IN /\ out.Confidence >= 0
               /\ out.Confidence <= 10
               /\ out.IsClear <=> out.Confidence >= 7
               /\ prompt = "" => (out.Confidence = 0 /\ ~out.IsClear)
               /\ prompt # "" =>
                     out.Confidence = 7 - 2 * Penalties(prompt) + Bonuses(prompt)

\* C20 witness: one Evaluator was asked about a prompt with all three
\* penalties and then about one with all three bonuses.
C20_Witness ==
    /\ Len(evalLog) = 2
    /\ evalLog[1].op = "Evaluate"
    /\ Len(evalLog[1].out.DetectedIssues) = 3
    /\ evalLog[1].out.Confidence = 1
    /\ ~evalLog[1].out.IsClear
    /\ evalLog[2].op = "Evaluate"
    /\ Bonuses(evalLog[2].prompt) = 3
    /\ evalLog[2].out.Confidence = 10
    /\ evalLog[2].out.IsClear

\* The issues the three checks of Evaluate report for a trimmed prompt, one per
\* check that fires, in the order length, word count, vagueness.
FiredIssues(prompt) ==
    LET l == ToLower(prompt)
    IN (IF Len(prompt) < 10 THEN <<IssueShort>> ELSE <<>>)
       \o (IF FieldCount(prompt) < 2 THEN <<IssueDetail>> ELSE <<>>)
       \o (IF MatchesVagueNoun(l) \/ MatchesVagueVerb(l) THEN <<IssueVague>> ELSE <<>>)

BothPatterns(prompt) ==
    MatchesVagueNoun(ToLower(prompt)) /\ MatchesVagueVerb(ToLower(prompt))

RanFixTheThing == mode = "auto" /\ state.OriginalPrompt = "Fix the thing"

C23_RefinementNotLower ==
    \A i \in 1..Len(evalLog) : \A j \in 1..Len(evalLog) :
        (/\ i < j
         /\ evalLog[i].op = "Evaluate" /\ evalLog[j].op = "Evaluate"
         /\ ~evalLog[i].out.IsClear
         /\ evalLog[j].prompt = evalLog[i].out.RefinedPrompt) =>
            /\ evalLog[j].out.Confidence >= evalLog[i].out.Confidence
            /\ Len(evalLog[j].out.DetectedIssues) <= Len(evalLog[i].out.DetectedIssues)
            /\ Bonuses(TrimSpace(evalLog[j].prompt)) >= Bonuses(TrimSpace(evalLog[i].prompt))

\* C23 witness: a short, vague prompt with an action verb was judged not clear
\* and its refinement, a different prompt, was evaluated with a higher
\* confidence.
C23_Witness ==
    /\ Len(evalLog) = 2
    /\ evalLog[1].op = "Evaluate" /\ evalLog[2].op = "Evaluate"
    /\ ~evalLog[1].out.IsClear
    /\ evalLog[1].out.DetectedIssues = <<IssueShort, IssueVague>>
    /\ evalLog[2].prompt = evalLog[1].out.RefinedPrompt
    /\ evalLog[2].prompt # evalLog[1].prompt
    /\ evalLog[2].out.Confidence > evalLog[1].out.Confidence

\* C24: for every non-empty prompt judged not clear, RefinedPrompt equals
\* SuggestedRefinement and is the trimmed prompt followed by the one suffix
\* chosen by the first detected issue (vague terms: " for correctness and best
\* practices"; too short: " including error handling and edge cases"), except
\* when the prompt already holds the qualifier; for every clear prompt no
\* refinement is suggested.
C24_RefinementSuffix ==
    \A i \in 1..Len(evalLog) :
        (evalLog[i].op = "Evaluate" /\ TrimSpace(evalLog[i].prompt) # "") =>
            LET out == evalLog[i].out
                prompt == TrimSpace(evalLog[i].prompt)
                first == out.DetectedIssues[1]
            IN IF out.IsClear
               THEN out.SuggestedRefinement = "" /\ out.RefinedPrompt = prompt
               ELSE /\ out.RefinedPrompt = out.SuggestedRefinement
                    /\ Len(out.DetectedIssues) > 0
                    /\ \/ /\ first = IssueVague
                          /\ out.RefinedPrompt
                                = prompt \o " for correctness and best practices"
                       \/ /\ first = IssueShort
                          /\ out.RefinedPrompt
                                = prompt \o " including error handling and edge cases"
                       \/ /\ Contains(prompt, " for ") \/ Contains(prompt, " including ")
                          /\ out.RefinedPrompt = prompt

\* The prompt is empty or made of white space only.
Blank(s) == \A k \in 1..Len(s) : Char(s, k) \in Space

\* C25: Evaluate on an empty or whitespace-only prompt returns early with
\* confidence 0, IsClear false and no detected issue: no penalty, no bonus, no
\* suggested refinement, no suffix on the prompt it hands back, no keywords.
C25_EmptyPrompt ==
    \A i \in 1..Len(evalLog) :
        (evalLog[i].op = "Evaluate" /\ Blank(evalLog[i].prompt)) =>
            LET out == evalLog[i].out
            IN /\ out.Confidence = 0
               /\ ~out.IsClear
               /\ out.DetectedIssues = <<>>
               /\ out.SuggestedRefinement = ""
               /\ out.RefinedPrompt = evalLog[i].prompt
               /\ out.SuggestedAgentKeywords = <<>>
               /\ out.Feedback = "Prompt is empty. Please provide a task description."

\* C25 witness: the empty prompt and a prompt of three spaces were evaluated,
\* both with confidence 0.
C25_Witness ==
    /\ Len(evalLog) = 2
    /\ evalLog[1].op = "Evaluate" /\ evalLog[1].prompt = ""
    /\ evalLog[1].out.Confidence = 0
    /\ evalLog[2].op = "Evaluate" /\ evalLog[2].prompt = "   "
    /\ evalLog[2].out.Confidence = 0 /\ ~evalLog[2].out.IsClear

\* The domain rules whose alternation matches the lower-cased prompt.
MatchingRules(prompt) ==
    {k \in 1..Len(domainKeywords) :
        \E t \in domainKeywords[k].pattern : Contains(ToLower(prompt), t)}

C27_RationaleOnFallback ==
    (mode = "auto" /\ pc # "idle") =>
        IF fellBack
        THEN state.SelectionRationale = "No agents matched the prompt keywords"
        ELSE state.SelectionRationale
                = "Selected based on keywords: " \o Join(keywords, 1)
                  \o ". Agents: " \o Join(state.SelectedAgents, 1)

\* C28: every outcome recorded for a step, produced by InvokeAgent or built by
\* the executor from a collaborator error, has exactly one of Output and Error
\* populated: Output when Success is true, Error when Success is false.
C28_OutputXorError ==
    \A k \in 1..Len(results) :
        LET r == results[k]
        IN /\ (r.Output # NilBytes) # (r.Error # "")
           /\ r.Success => (r.Output # NilBytes /\ r.Error = "")
           /\ ~r.Success => (r.Output = NilBytes /\ r.Error # "")

\* C29: InvokeAgent runs the command a second time when the first run fails
\* transiently, makes at most two runs per call, and makes no second run when
\* the first was cancelled by the user.
C29_RetryOnce ==
    \A i \in 1..Len(invokeLog) :
        LET runs == invokeLog[i].runs
        IN /\ Len(runs) <= 1 + NewInvoker.retries
           /\ runs[1].err = "canceled" => Len(runs) = 1
           /\ runs[1] = RunTransient => Len(runs) = 2

\* C30: InvokeAgent returns a non-nil error when the execution of the CLI
\* itself failed (command not found, timeout, context cancelled), and returns
\* a result with Success false together with a nil error only when the agent
\* ran and exited with a non-zero exit code.
C30_ErrorOnExecutionFailure ==
    \A i \in 1..Len(invokeLog) :
        LET call == invokeLog[i]
            run == call.runs[Len(call.runs)]
        IN /\ run.err \in {"notfound", "deadline", "canceled"} => call.err # "nil"
           /\ (call.err = "nil" /\ ~call.result.Success) =>
                  (run.err = "exit" /\ run.code # 0)

\* C31: when the evaluated prompt is too unclear to act on (the empty prompt,
\* confidence 0), the automatic run does not proceed: it invokes no agent.
C31_NoInvocationWhenUnclear ==
    (mode = "auto" /\ state.EvaluationFeedback.Confidence = 0) =>
        invocations = <<>>

\* The entries of the directory that are regular .md files which parse to an
\* agent, and the first of them that carries a given name.
UsableEntries(dir) ==
    {k \in Range(dir.entries) :
        /\ ~AgentFiles[k].isDir
        /\ HasSuffix(AgentFiles[k].name, ".md")
        /\ ParsedFiles[k].err = "nil"}

FirstEntryNamed(dir, n) ==
    CHOOSE k \in UsableEntries(dir) :
        /\ ParsedFiles[k].agent.Name = n
        /\ \A j \in UsableEntries(dir) : ParsedFiles[j].agent.Name = n => k <= j

\* C32: Discover does not fail because of an agent file.  Files without valid
\* frontmatter or without a name, and files whose agent name is already
\* registered, are skipped and Discover returns no error; the registry then
\* holds one descriptor per distinct valid name, the first encountered, in
\* the order encountered; a second Discover on the same directory leaves the
\* registry unchanged; a missing directory gives an empty registry and no
\* error.
C32_DiscoverSkipsBadFiles ==
    \A i \in 1..Len(discoverLog) :
        LET call == discoverLog[i]
            names == {ParsedFiles[k].agent.Name : k \in UsableEntries(agentsDir)}
            order == call.after.order
        IN /\ (agentsDir.readable \/ ~agentsDir.exists) => call.err = "nil"
           /\ call.err = "nil" =>
                 /\ DOMAIN call.after.agents = names
                 /\ Range(order) = names
                 /\ Len(order) = Cardinality(names)
                 /\ \A n \in names :
                       call.after.agents[n] = ParsedFiles[FirstEntryNamed(agentsDir, n)].agent
                 /\ \A a, b \in 1..Len(order) :
                       a < b => FirstEntryNamed(agentsDir, order[a])
                                  < FirstEntryNamed(agentsDir, order[b])
           /\ i > 1 => call.after = call.before
           /\ ~agentsDir.exists => call.after = NewRegistry

\* C32 witness: Discover ran twice on a directory holding a file that is not
\* Markdown, one without frontmatter, one without a name, an unreadable one, a
\* subdirectory, two files naming code-reviewer and one naming test-generator;
\* both calls returned no error and the registry holds the first
\* code-reviewer and test-generator.
C32_Witness ==
    /\ Len(discoverLog) = 2
    /\ Len(agentsDir.entries) = Len(AgentFiles)
    /\ discoverLog[1].err = "nil" /\ discoverLog[2].err = "nil"
    /\ registry.order = <<"code-reviewer", "test-generator">>
    /\ registry.agents["code-reviewer"]
          = Agent("code-reviewer", "Reviews code", <<"code-review", "go">>)
    /\ registry.agents["test-generator"]
          = Agent("test-generator", "", <<"testing", "unit">>)
    /\ discoverLog[2].before = registry

\* The value is a bare number: digits only.
BareNumber(val) == val # "" /\ Run(val, TRUE) = Len(val)

\* C33: COPILOT_CLI_TIMEOUT is a timeout in seconds: set to a bare number of
\* seconds it configures a CLI timeout of that many seconds, and 300 seconds
\* is used when it is unset.
C33_TimeoutInSeconds ==
    \A i \in 1..Len(cfgLog) :
        /\ env.COPILOT_CLI_TIMEOUT = "" => cfgLog[i].CLITimeout = 300
        /\ BareNumber(env.COPILOT_CLI_TIMEOUT) =>
              cfgLog[i].CLITimeout = Atoi(env.COPILOT_CLI_TIMEOUT)

\* a is b with some of its entries left out.
IsSubsequence(a, b) ==
    \E f \in [1..Len(a) -> 1..Len(b)] :
        /\ \A i \in 1..Len(a) : a[i] = b[f[i]]
        /\ \A i, j \in 1..Len(a) : i < j => f[i] < f[j]

\* C34: the outcomes list of a chain run is append-only.  A step of the run
\* leaves it as it is or, when step k is recorded, appends one entry to make
\* it k entries long, the entries of earlier steps staying as they were; the
\* forwarded context is at every point a subsequence of the outcomes made of
\* successful outcomes only.
C34_OutcomesAppendOnly ==
    [][(pc \in {"loop", "invoke"}) =>
          /\ \/ results' = results
             \/ /\ pc = "invoke" /\ pc' = "loop"
                /\ Len(results') = Len(results) + 1
                /\ Len(results') = idx
                /\ SubSeq(results', 1, Len(results)) = results
                /\ results'[idx].Agent = chainAgents[idx].Name
          /\ (pc = "invoke" /\ pc' = "loop") => results' # results
          /\ IsSubsequence(contextState', results')
          /\ \A k \in 1..Len(contextState') : contextState'[k].Success
          /\ IsSubsequence(contextState, contextState')]_vars

\* C34 witness: a chain of three has been recorded; the second step failed and
\* the forwarded context holds the first and the third outcome.
C34_Witness ==
    /\ pc = "returned" /\ retErr = "nil"
    /\ Len(results) = 3
    /\ results[1].Success /\ ~results[2].Success /\ results[3].Success
    /\ contextState = <<results[1], results[3]>>

\* C35: every run terminates.  With every invocation returning, a chain that
\* has been entered reaches its return: after exactly n invocations for a
\* chain of n agents when it returns no error, after fewer when it returns
\* on cancellation.  Invocation k is of the k-th agent of the chain, so no
\* agent outside the chain is invoked, and the loop never goes back a step.
C35_ChainTerminates ==
    /\ (pc \in {"loop", "invoke"}) ~> (pc = "returned")
    /\ [](pc \in {"loop", "invoke", "returned"} =>
            /\ Len(invocations) <= Len(chainAgents)
            /\ \A k \in 1..Len(invocations) :
                  invocations[k].agent = chainAgents[k].Name
            /\ (pc = "returned" /\ retErr = "nil") =>
                  (Len(invocations) = Len(chainAgents) /\ idx = Len(chainAgents) + 1)
            /\ (pc = "returned" /\ retErr = "canceled") =>
                  (Len(invocations) < Len(chainAgents) /\ idx = Len(invocations) + 1))
    /\ [][(pc \in {"loop", "invoke"}) =>
            (\/ idx' = idx /\ invocations' = invocations
             \/ idx' = idx /\ pc = "loop" /\ Len(invocations') = idx
             \/ idx' = idx + 1 /\ pc = "invoke" /\ Len(invocations') = idx)]_vars

\* C35 witness: an explicit chain of two agents has returned without error
\* after two invocations.
C35_Witness ==
    /\ mode = "explicit"
    /\ pc = "returned" /\ retErr = "nil"
    /\ Len(chainAgents) = 2
    /\ Len(invocations) = 2
    /\ idx = 3

\* C36: cancellation is observed at step boundaries only.  A run whose chain
\* has no step left, including one whose context was cancelled during or
\* after the last invocation and one whose chain is empty, returns no
\* cancellation error and a complete report: one outcome for every selected
\* agent, in order.  A cancellation error is returned only with a step left.
C36_CancellationAfterLastBoundary ==
    (pc = "returned" /\ retErr # "notfound") =>
        /\ retErr = "canceled" <=> (ctxDone /\ idx <= Len(chainAgents))
        /\ idx > Len(chainAgents) =>
              /\ retErr = "nil"
              /\ Len(state.AgentResults) = Len(chainAgents)
              /\ \A k \in 1..Len(chainAgents) :
                    state.AgentResults[k].Agent = chainAgents[k].Name
              /\ state.FinalOutput = chainOut /\ chainOut # ""
        /\ chainAgents = <<>> => retErr = "nil"

\* C36 witness: the context was cancelled during the last invocation of a
\* chain of two, whose command died of it; the run returned no error and both
\* outcomes.
C36_Witness ==
    /\ pc = "returned" /\ retErr = "nil"
    /\ ctxDone
    /\ Len(chainAgents) = 2
    /\ Len(state.AgentResults) = 2
    /\ ~invocations[2].ctxDone
    /\ state.AgentResults[2].Error = "context canceled"

\* The other case of C36: an empty chain run under a cancelled context.
C36_EmptyChainCancelled ==
    pc = "returned" /\ ctxDone /\ chainAgents = <<>> /\ retErr = "nil"

\* Two positions of a keyword list exchanged, and one of its keywords said
\* again at the end: every permutation and every repetition of a list is
\* reached from it by a succession of these.
Rearrangements(kws) ==
    {Swap(kws, i, j) : i, j \in 1..Len(kws)} \cup {Append(kws, kws[i]) : i \in 1..Len(kws)}

\* The agents RunWithAuto hands to executeChain when ExtractKeywords gave kws.
SelectedFor(r, kws) ==
    LET matched == selectAgents(r, kws, DefaultMaxCount)
    IN IF Len(matched) = 0 THEN selectTopAgents(r, FallbackCount) ELSE matched

\* C37: MatchKeywords depends on the set of its input keywords only.  For
\* every registry and every keyword list, exchanging two keywords or repeating
\* one changes neither the agents returned nor their order; and the agents
\* RunWithAuto selected are those it would have selected under every other
\* order in which ExtractKeywords could have emitted the tags of the prompt.
C37_MatchKeywordsOnSet ==
    /\ pc = "idle" =>
          \A kws \in SeqsUpTo(KeywordInputs, MaxKeywords) :
             \A other \in Rearrangements(kws) :
                MatchKeywords(registry, other) = MatchKeywords(registry, kws)
    /\ (mode = "auto" /\ pc = "loop" /\ idx = 1 /\ ~ctxDone) =>
          \A kws \in Extractions[state.RefinedPrompt] :
             /\ Range(kws) = Range(keywords)
             /\ MatchKeywords(registry, kws) = MatchKeywords(registry, keywords)
             /\ SelectedFor(registry, kws) = chainAgents
             /\ agentNames(SelectedFor(registry, kws)) = state.SelectedAgents

\* C37 witness: RunWithAuto selected two matching agents for a prompt whose
\* tags ExtractKeywords can emit in another order as well.
C37_Witness ==
    /\ mode = "auto" /\ pc = "loop" /\ idx = 1 /\ ~ctxDone
    /\ ~fellBack
    /\ Len(chainAgents) = 2
    /\ Len(keywords) >= 4
    /\ \E kws \in Extractions[state.RefinedPrompt] :
          kws # keywords /\ kws[1] # keywords[1]

\* C38: the returned state is consistent.  When a run returned without error,
\* SelectedAgents and AgentResults have the same length and result k carries
\* the name SelectedAgents[k].  In RunWithAuto, SelectedAgents are the names
\* of the agents handed to executeChain, in the same order, and the prompt
\* executeChain starts from is the state's RefinedPrompt.
C38_ReportConsistent ==
    /\ (pc = "returned" /\ retErr = "nil") =>
          /\ Len(state.AgentResults) = Len(state.SelectedAgents)
          /\ \A k \in 1..Len(state.SelectedAgents) :
                state.AgentResults[k].Agent = state.SelectedAgents[k]
    /\ (mode = "auto" /\ pc # "idle") =>
          /\ Len(state.SelectedAgents) = Len(chainAgents)
          /\ \A k \in 1..Len(chainAgents) : state.SelectedAgents[k] = chainAgents[k].Name
          /\ chainPrompt = state.RefinedPrompt
          /\ \A k \in 1..Len(invocations) : invocations[k].agent = state.SelectedAgents[k]

\* C38 witness: RunWithAuto refined the prompt, ran two agents and returned
\* without error.
C38_Witness ==
    /\ mode = "auto" /\ pc = "returned" /\ retErr = "nil"
    /\ state.RefinedPrompt # state.OriginalPrompt
    /\ Len(state.SelectedAgents) = 2
    /\ Len(state.AgentResults) = 2
    /\ state.SelectedAgents[1] # state.SelectedAgents[2]

====
